---------------------------- MODULE Spec2Model ----------------------------
(*************************************************************************)
(* RTI-Aware Response Summarizer: the sentence classifier, the          *)
(* structured-response aggregator, the fact-anchor scorer and the       *)
(* action rule engine.                                                   *)
(*                                                                       *)
(* Text is modelled character by character: a Python str is a sequence  *)
(* of one-character strings, so that substring tests, case folding,     *)
(* trimming, regular-expression matching and splitting are computed the *)
(* way the code computes them.                                          *)
(*                                                                       *)
(* Floating-point values are modelled exactly:                          *)
(*   - a ratio count/total is the pair [num, den] and is compared with  *)
(*     a decimal literal p/q by cross-multiplication;                   *)
(*   - a classifier score is an integer number of 1/280 (280 is the     *)
(*     least common multiple of the keyword-list sizes 14 and 8 and of  *)
(*     the denominator 10 of the bonuses 0.3, 0.2 and the floor 0.1);   *)
(*   - a fact-density score is an integer number of 1/4 (all weights    *)
(*     and bonuses are multiples of 0.5, and a halved one of 0.25).     *)
(* For the values the program computes the float comparisons agree with *)
(* the exact ones (n/8 and the literal 0.5 are exact doubles; all other *)
(* distinct operands differ by far more than a rounding error).         *)
(*************************************************************************)
EXTENDS Integers, Sequences, FiniteSets, TLC

VARIABLES
    text,         \* the document text handed to extract_structured_response
                  \* and to extract_fact_anchors
    structured,   \* the StructuredRTIResponse under construction / in use
    sentence,     \* the argument of classify_sentence and of
                  \* calculate_sentence_score
    classified,   \* the ClassifiedSentence returned by classify_sentence
    suggestions,  \* return value of suggest_next_steps
    appeal_check, \* return value of check_appeal_eligibility
    flags,        \* return value of flag_evasive_responses
    report,       \* return value of generate_action_report
    pc,           \* "new": nothing built; "built": structured is usable;
                  \* "done": an operation has returned
    op,           \* name of the operation that returned last ("none" at start)
    top_n,        \* the top_n argument of extract_fact_anchors
    scored,       \* return value of calculate_sentence_score
    fact_anchors, \* return value of extract_fact_anchors
    earlier,      \* the results of the runs a caller made before on the
                  \* same arguments, oldest first
    segments,     \* return value of a split_into_sentences
    config,       \* the settings of config.py a summarizer call reads
    summary,      \* return value of a generate_*_summary function
    logs,         \* the entries stored in the log file, oldest first
    now,          \* the clock read by datetime.now(), in ticks
    heap,         \* the list and dict objects invocations have allocated,
                  \* by address
    calls         \* the invocations in progress, each with its document,
                  \* its position and its local variables

vars == <<text, structured, sentence, classified, suggestions, appeal_check,
          flags, report, pc, op, top_n, scored, fact_anchors, earlier,
          segments, config, summary, logs, now, heap, calls>>

---------------------------------------------------------------------------
(* Bounds of the model *)

\* most sentences appended to a StructuredRTIResponse by the rule-engine runs
MaxTotal == 4

\* most sentences appended by the rule-table runs
MaxRuleTotal == 7

\* in the rule-table runs, the number of leading procedural sentences whose
\* text varies (the later ones repeat one text)
MaxVaried == 2

\* most fragments in a sentence given to classify_sentence
MaxFragments == 2

\* most chunks in a document given to extract_structured_response
MaxChunks == 3

\* most fragments in a sentence given to calculate_sentence_score
MaxScoreFragments == 2

\* most chunks in a document given to extract_fact_anchors
MaxAnchorChunks == 3

\* largest top_n given to extract_fact_anchors
MaxTopN == 3

\* most runs a caller makes on the same arguments
MaxRuns == 2

\* the number of chunks in a segmented document
MaxSegmentChunks == 2

\* most calls logged on one QuotaLogger after its log holds MaxLogEntries
MaxLogCalls == 3

\* the number of invocations that run at once
MaxInvocations == 2

\* most sentences appended in the counting scenario (10 sentences, 4 denials)
MaxScenarioTotal == 10

---------------------------------------------------------------------------
(* Python str operations on character sequences *)

UpperChars == <<"A","B","C","D","E","F","G","H","I","J","K","L","M",
                "N","O","P","Q","R","S","T","U","V","W","X","Y","Z">>

LowerChars == <<"a","b","c","d","e","f","g","h","i","j","k","l","m",
                "n","o","p","q","r","s","t","u","v","w","x","y","z">>

\* the translation table of str.lower() for the ASCII letters
ToLower ==
    [c \in {UpperChars[i] : i \in 1..26} |->
        LowerChars[CHOOSE i \in 1..26 : UpperChars[i] = c]]

\* str.lower() on one character
LowerChar(c) == IF c \in DOMAIN ToLower THEN ToLower[c] ELSE c

\* str.lower()
Lower(s) == [i \in 1..Len(s) |-> LowerChar(s[i])]

\* the characters matched by \s and removed by str.strip()
IsSpace(c) == c \in {" ", "\n", "\t"}

\* s[i:] starts with k  (i is a 1-based position)
StartsWithAt(s, i, k) ==
    /\ i >= 1
    /\ i + Len(k) - 1 <= Len(s)
    /\ \A j \in 1..Len(k) : s[i + j - 1] = k[j]

\* k in s
Contains(s, k) == \E i \in 1..(Len(s) - Len(k) + 1) : StartsWithAt(s, i, k)

\* str.strip()
Strip(s) ==
    LET keep == {i \in 1..Len(s) : ~IsSpace(s[i])}
    IN  IF keep = {} THEN <<>>
        ELSE LET first == CHOOSE i \in keep : \A j \in keep : i <= j
                 last  == CHOOSE i \in keep : \A j \in keep : i >= j
             IN  SubSeq(s, first, last)

\* sep.join(parts)
RECURSIVE Join(_, _)
Join(parts, sep) ==
    IF parts = <<>> THEN <<>>
    ELSE IF Len(parts) = 1 THEN parts[1]
    ELSE parts[1] \o sep \o Join(Tail(parts), sep)

\* the least element of a non-empty set of positions
Least(S) == CHOOSE x \in S : \A y \in S : x <= y

---------------------------------------------------------------------------
(* rti_semantic.py: data types *)

\* class SentenceCategory(Enum)
SentenceCategory ==
    {"informative", "denial", "procedural", "evasive", "neutral"}

\* one unit of score: a float x is the integer 280 * x
ScoreUnit == 7 * 8 * 5

\* @dataclass ClassifiedSentence(text, category, confidence,
\*                               section_references=[], keywords_found=[])
ClassifiedSentence(t, cat, conf, refs, kws) ==
    [text |-> t, category |-> cat, confidence |-> conf,
     section_references |-> refs, keywords_found |-> kws]

\* the empty dict {} : a function with no key
EmptyDict == [k \in {} |-> <<>>]

\* @dataclass StructuredRTIResponse(original_text, <five empty lists>,
\*                                  section_references)
StructuredRTIResponse(t, refs) ==
    [original_text |-> t,
     informative_sentences |-> <<>>,
     denial_sentences |-> <<>>,
     procedural_sentences |-> <<>>,
     evasive_sentences |-> <<>>,
     neutral_sentences |-> <<>>,
     section_references |-> refs]

\* the value count / total if total > 0 else 0, kept as an exact fraction
Ratio(count, total) ==
    IF total > 0 THEN [num |-> count, den |-> total]
                 ELSE [num |-> 0, den |-> 1]

\* ratio > p/q for the decimal literal p/q  (0.3 is 3/10, ...)
RatioGT(r, p, q) == r.num * q > p * r.den

\* mutant: total without len(self.neutral_sentences)
get_stats_NoNeutral(s) ==
    LET total == Len(s.informative_sentences) + Len(s.denial_sentences)
                 + Len(s.procedural_sentences) + Len(s.evasive_sentences)
    IN  [total_sentences   |-> total,
         informative_count |-> Len(s.informative_sentences),
         denial_count      |-> Len(s.denial_sentences),
         procedural_count  |-> Len(s.procedural_sentences),
         evasive_count     |-> Len(s.evasive_sentences),
         neutral_count     |-> Len(s.neutral_sentences),
         informative_ratio |-> Ratio(Len(s.informative_sentences), total),
         denial_ratio      |-> Ratio(Len(s.denial_sentences), total)]

\* StructuredRTIResponse.get_stats
get_stats(s) ==
    LET total == Len(s.informative_sentences) + Len(s.denial_sentences)
                 + Len(s.procedural_sentences) + Len(s.evasive_sentences)
                 + Len(s.neutral_sentences)
    IN  [total_sentences   |-> total,
         informative_count |-> Len(s.informative_sentences),
         denial_count      |-> Len(s.denial_sentences),
         procedural_count  |-> Len(s.procedural_sentences),
         evasive_count     |-> Len(s.evasive_sentences),
         neutral_count     |-> Len(s.neutral_sentences),
         informative_ratio |-> Ratio(Len(s.informative_sentences), total),
         denial_ratio      |-> Ratio(Len(s.denial_sentences), total)]

---------------------------------------------------------------------------
(* config.py: section patterns and keyword lists *)

\* the pattern element \s* ; every other element is one lower-case
\* character, matched with re.IGNORECASE
SpaceStar == "\\s*"

\* RTI_SECTIONS: the section names in dict order
SectionNames ==
    <<"section_8", "section_9", "section_11", "section_19", "section_7">>

\* RTI_SECTIONS: each pattern is the sequence of its alternatives
RTI_SECTIONS ==
    [name \in {SectionNames[i] : i \in 1..Len(SectionNames)} |->
        CASE name = "section_8" ->
              \* [Ss]ection\s*8|[Ss]ec\.\s*8|exemption|exempt
              <<<<"s","e","c","t","i","o","n",SpaceStar,"8">>,
                <<"s","e","c",".",SpaceStar,"8">>,
                <<"e","x","e","m","p","t","i","o","n">>,
                <<"e","x","e","m","p","t">>>>
          [] name = "section_9" ->
              \* [Ss]ection\s*9|[Ss]ec\.\s*9|reject|rejection
              <<<<"s","e","c","t","i","o","n",SpaceStar,"9">>,
                <<"s","e","c",".",SpaceStar,"9">>,
                <<"r","e","j","e","c","t">>,
                <<"r","e","j","e","c","t","i","o","n">>>>
          [] name = "section_11" ->
              \* [Ss]ection\s*11|[Ss]ec\.\s*11|third\s*party
              <<<<"s","e","c","t","i","o","n",SpaceStar,"1","1">>,
                <<"s","e","c",".",SpaceStar,"1","1">>,
                <<"t","h","i","r","d",SpaceStar,"p","a","r","t","y">>>>
          [] name = "section_19" ->
              \* [Ss]ection\s*19|[Ss]ec\.\s*19|appeal
              <<<<"s","e","c","t","i","o","n",SpaceStar,"1","9">>,
                <<"s","e","c",".",SpaceStar,"1","9">>,
                <<"a","p","p","e","a","l">>>>
          [] name = "section_7" ->
              \* [Ss]ection\s*7|[Ss]ec\.\s*7|time\s*limit|30\s*days
              <<<<"s","e","c","t","i","o","n",SpaceStar,"7">>,
                <<"s","e","c",".",SpaceStar,"7">>,
                <<"t","i","m","e",SpaceStar,"l","i","m","i","t">>,
                <<"3","0",SpaceStar,"d","a","y","s">>>>]

\* DENIAL_KEYWORDS: cannot be provided, denied, rejected, exempt, exemption, ...
DENIAL_KEYWORDS ==
    <<<<"c","a","n","n","o","t"," ","b","e"," ","p","r","o","v","i","d","e","d">>,
      <<"d","e","n","i","e","d">>,
      <<"r","e","j","e","c","t","e","d">>,
      <<"e","x","e","m","p","t">>,
      <<"e","x","e","m","p","t","i","o","n">>,
      <<"n","o","t"," ","a","v","a","i","l","a","b","l","e">>,
      <<"r","e","f","u","s","e","d">>,
      <<"d","e","c","l","i","n","e">>,
      <<"n","o","t"," ","p","o","s","s","i","b","l","e">>,
      <<"s","e","c","t","i","o","n"," ","8">>,
      <<"c","o","n","f","i","d","e","n","t","i","a","l">>,
      <<"c","l","a","s","s","i","f","i","e","d">>,
      <<"s","e","n","s","i","t","i","v","e">>,
      <<"n","a","t","i","o","n","a","l"," ","s","e","c","u","r","i","t","y">>>>

\* INFORMATIVE_KEYWORDS: information is, details are, as per records, enclosed, ...
INFORMATIVE_KEYWORDS ==
    <<<<"i","n","f","o","r","m","a","t","i","o","n"," ","i","s">>,
      <<"d","e","t","a","i","l","s"," ","a","r","e">>,
      <<"a","s"," ","p","e","r"," ","r","e","c","o","r","d","s">>,
      <<"e","n","c","l","o","s","e","d">>,
      <<"a","t","t","a","c","h","e","d">>,
      <<"p","r","o","v","i","d","e","d"," ","h","e","r","e","w","i","t","h">>,
      <<"f","o","l","l","o","w","i","n","g"," ","i","n","f","o","r","m","a","t","i","o","n">>,
      <<"d","a","t","a"," ","s","h","o","w","s">>>>

\* PROCEDURAL_KEYWORDS: transferred to, forwarded to, fee required, please deposit, ...
PROCEDURAL_KEYWORDS ==
    <<<<"t","r","a","n","s","f","e","r","r","e","d"," ","t","o">>,
      <<"f","o","r","w","a","r","d","e","d"," ","t","o">>,
      <<"f","e","e"," ","r","e","q","u","i","r","e","d">>,
      <<"p","l","e","a","s","e"," ","d","e","p","o","s","i","t">>,
      <<"t","i","m","e"," ","e","x","t","e","n","s","i","o","n">>,
      <<"a","d","d","i","t","i","o","n","a","l"," ","t","i","m","e">>,
      <<"c","o","m","p","e","t","e","n","t"," ","a","u","t","h","o","r","i","t","y">>,
      <<"C","P","I","O">>>>

\* EVASIVE_KEYWORDS: no such information, not maintained, not available, beyond scope, ...
EVASIVE_KEYWORDS ==
    <<<<"n","o"," ","s","u","c","h"," ","i","n","f","o","r","m","a","t","i","o","n">>,
      <<"n","o","t"," ","m","a","i","n","t","a","i","n","e","d">>,
      <<"n","o","t"," ","a","v","a","i","l","a","b","l","e">>,
      <<"b","e","y","o","n","d"," ","s","c","o","p","e">>,
      <<"v","o","l","u","m","i","n","o","u","s">>,
      <<"v","a","g","u","e">>,
      <<"c","l","a","r","i","f","y">>,
      <<"r","e","s","u","b","m","i","t">>>>

---------------------------------------------------------------------------
(* rti_semantic.py: section detection and sentence classification *)

\* match the elements k.. of one alternative at position i of s: the
\* position after the match, or 0 if there is none.  \s* is greedy; the
\* element after it is never a space, so no backtracking is needed.
RECURSIVE MatchFrom(_, _, _, _)
MatchFrom(s, i, alt, k) ==
    IF k > Len(alt) THEN i
    ELSE IF alt[k] = SpaceStar
         THEN IF i <= Len(s) /\ IsSpace(s[i])
              THEN MatchFrom(s, i + 1, alt, k)
              ELSE MatchFrom(s, i, alt, k + 1)
    ELSE IF i <= Len(s) /\ LowerChar(s[i]) = alt[k]
         THEN MatchFrom(s, i + 1, alt, k + 1)
    ELSE 0

\* match a pattern at position i: its first alternative that matches decides
RECURSIVE MatchAt(_, _, _, _)
MatchAt(s, i, pattern, a) ==
    IF a > Len(pattern) THEN 0
    ELSE IF MatchFrom(s, i, pattern[a], 1) # 0
         THEN MatchFrom(s, i, pattern[a], 1)
    ELSE MatchAt(s, i, pattern, a + 1)

\* re.finditer(pattern, text, re.IGNORECASE) from position i on: the
\* non-overlapping matches, leftmost first, as [start, stop) positions;
\* the scan resumes where the last match stopped
RECURSIVE FindIter(_, _, _)
FindIter(s, pattern, i) ==
    LET starts == {j \in i..Len(s) : MatchAt(s, j, pattern, 1) # 0}
    IN  IF starts = {} THEN <<>>
        ELSE LET start == Least(starts)
                 stop == MatchAt(s, start, pattern, 1)
             IN  <<[start |-> start, stop |-> stop]>>
                    \o FindIter(s, pattern, stop)

\* the characters of context kept on each side of a match
ContextChars == 50

Max(a, b) == IF a >= b THEN a ELSE b
Min(a, b) == IF a <= b THEN a ELSE b

\* text[max(0, match.start() - 50) : min(len(text), match.end() + 50)].strip()
Excerpt(s, m) ==
    Strip(SubSeq(s, Max(1, m.start - ContextChars),
                    Min(Len(s), m.stop - 1 + ContextChars)))

\* mutant: only the first match of a section gives an excerpt
Excerpts_FirstMatchOnly(s, name) ==
    LET matches == FindIter(s, RTI_SECTIONS[name], 1)
    IN  IF matches = <<>> THEN <<>> ELSE <<Excerpt(s, matches[1])>>

\* the excerpts list of one section
Excerpts(s, name) ==
    LET matches == FindIter(s, RTI_SECTIONS[name], 1)
    IN  [k \in 1..Len(matches) |-> Excerpt(s, matches[k])]

\* detect_rti_sections: only the sections with a match are keys
detect_rti_sections(s) ==
    LET excerpts == [name \in DOMAIN RTI_SECTIONS |-> Excerpts(s, name)]
    IN  [name \in {n \in DOMAIN RTI_SECTIONS : excerpts[n] # <<>>} |->
            excerpts[name]]

\* list(section_refs.keys()): the keys in insertion order
KeyList(refs) ==
    LET Present(name) == name \in DOMAIN refs
    IN  SelectSeq(SectionNames, Present)

\* the found_keywords list of keyword_score
FoundKeywords(s, keywords) ==
    LET text_lower == Lower(s)
        Found(keyword) == Contains(text_lower, Lower(keyword))
    IN  SelectSeq(keywords, Found)

\* keyword_score: (score, found_keywords), the score in units of 1/ScoreUnit
keyword_score(s, keywords) ==
    LET found == FoundKeywords(s, keywords)
    IN  [score |-> IF keywords # <<>>
                   THEN (Len(found) * ScoreUnit) \div Len(keywords)
                   ELSE 0,
         keywords |-> found]

\* mutant: a Section 8 boost of 0.05, too small to pass the floor alone
DenialBoost_Small == ScoreUnit \div 20

\* the boosts 0.3 and 0.2 and the floor 0.1, in units of 1/ScoreUnit
DenialBoost == (3 * ScoreUnit) \div 10
ProceduralBoost == (2 * ScoreUnit) \div 10
NeutralFloor == ScoreUnit \div 10
NeutralConfidence == (5 * ScoreUnit) \div 10

\* re.search(r'transfer|forward', sentence, re.I)
MentionsTransfer(s) ==
    FindIter(s, <<<<"t","r","a","n","s","f","e","r">>, <<"f","o","r","w","a","r","d">>>>, 1) # <<>>

\* mutant: the procedural boost added once for section_7 and once more
\* for transfer|forward
AdjustedScores_BoostTwice(s) ==
    LET denial == keyword_score(s, DENIAL_KEYWORDS)
        informative == keyword_score(s, INFORMATIVE_KEYWORDS)
        procedural == keyword_score(s, PROCEDURAL_KEYWORDS)
        evasive == keyword_score(s, EVASIVE_KEYWORDS)
        section_refs == detect_rti_sections(s)
    IN  << [category |-> "denial",
            score |-> denial.score
                      + (IF "section_8" \in DOMAIN section_refs
                         THEN DenialBoost ELSE 0),
            keywords |-> denial.keywords],
           [category |-> "informative", score |-> informative.score,
            keywords |-> informative.keywords],
           [category |-> "procedural",
            score |-> procedural.score
                      + (IF "section_7" \in DOMAIN section_refs
                         THEN ProceduralBoost ELSE 0)
                      + (IF MentionsTransfer(s)
                         THEN ProceduralBoost ELSE 0),
            keywords |-> procedural.keywords],
           [category |-> "evasive", score |-> evasive.score,
            keywords |-> evasive.keywords] >>

\* the scores dict of classify_sentence, in insertion order, after the boosts
AdjustedScores(s) ==
    LET denial == keyword_score(s, DENIAL_KEYWORDS)
        informative == keyword_score(s, INFORMATIVE_KEYWORDS)
        procedural == keyword_score(s, PROCEDURAL_KEYWORDS)
        evasive == keyword_score(s, EVASIVE_KEYWORDS)
        section_refs == detect_rti_sections(s)
    IN  << [category |-> "denial",
            score |-> denial.score
                      + (IF "section_8" \in DOMAIN section_refs
                         THEN DenialBoost ELSE 0),
            keywords |-> denial.keywords],
           [category |-> "informative", score |-> informative.score,
            keywords |-> informative.keywords],
           [category |-> "procedural",
            score |-> procedural.score
                      + (IF \/ "section_7" \in DOMAIN section_refs
                            \/ MentionsTransfer(s)
                         THEN ProceduralBoost ELSE 0),
            keywords |-> procedural.keywords],
           [category |-> "evasive", score |-> evasive.score,
            keywords |-> evasive.keywords] >>

\* mutant: if score >= best_score
BetterThan_OrEqual(entry, best) == entry.score >= best.score

\* one turn of the loop: if score > best_score: take this entry
BetterThan(entry, best) == entry.score > best.score

\* the loop 'for category, (score, keywords) in scores.items()'
RECURSIVE BestFrom(_, _, _)
BestFrom(scores, k, best) ==
    IF k > Len(scores) THEN best
    ELSE BestFrom(scores, k + 1,
                  IF BetterThan(scores[k], best) THEN scores[k] ELSE best)

\* best_category, best_score, best_keywords after the loop
BestCategory(s) ==
    BestFrom(AdjustedScores(s), 1,
             [category |-> "neutral", score |-> 0, keywords |-> <<>>])

\* mutant: best_category = NEUTRAL without best_score = 0.5
WithFloor_KeepsScore(best) ==
    IF best.score < NeutralFloor
    THEN [best EXCEPT !.category = "neutral"]
    ELSE best

\* if best_score < 0.1: neutral with score 0.5
WithFloor(best) ==
    IF best.score < NeutralFloor
    THEN [best EXCEPT !.category = "neutral", !.score = NeutralConfidence]
    ELSE best

\* mutant: confidence=best_score, without min(best_score, 1.0)
classify_sentence_Uncapped(raw) ==
    LET s == Strip(raw)
    IN  IF s = <<>>
        THEN ClassifiedSentence(s, "neutral", 0, <<>>, <<>>)
        ELSE LET best == WithFloor(BestCategory(s))
             IN  ClassifiedSentence(s, best.category, best.score,
                                    KeyList(detect_rti_sections(s)),
                                    best.keywords)

\* classify_sentence
classify_sentence(raw) ==
    LET s == Strip(raw)
    IN  IF s = <<>>
        THEN ClassifiedSentence(s, "neutral", 0, <<>>, <<>>)
        ELSE LET best == WithFloor(BestCategory(s))
             IN  ClassifiedSentence(s, best.category,
                                    Min(best.score, ScoreUnit),
                                    KeyList(detect_rti_sections(s)),
                                    best.keywords)

---------------------------------------------------------------------------
(* rti_semantic.py: sentence segmentation and aggregation *)

\* the alternatives of (Mr|Mrs|Dr|Prof|Sr|Jr|vs|etc|i\.e|e\.g), in order
TitleAbbreviations ==
    <<<<"M","r">>,
      <<"M","r","s">>,
      <<"D","r">>,
      <<"P","r","o","f">>,
      <<"S","r">>,
      <<"J","r">>,
      <<"v","s">>,
      <<"e","t","c">>,
      <<"i",".","e">>,
      <<"e",".","g">>>>

\* the alternatives of ([Ss]ec|[Nn]o)
SectionAbbreviations ==
    <<<<"S","e","c">>,
      <<"s","e","c">>,
      <<"N","o">>,
      <<"n","o">>>>

\* the placeholder '<DOT>'
DotPlaceholder == <<"<","D","O","T",">">>

\* the length of the first abbreviation (from alternative a on) that stands
\* at position i followed by '.' and a whitespace character; 0 if none
RECURSIVE AbbreviationAt(_, _, _, _)
AbbreviationAt(s, i, abbreviations, a) ==
    IF a > Len(abbreviations) THEN 0
    ELSE LET n == Len(abbreviations[a])
         IN  IF /\ StartsWithAt(s, i, abbreviations[a])
                /\ i + n + 1 <= Len(s)
                /\ s[i + n] = "."
                /\ IsSpace(s[i + n + 1])
             THEN n
             ELSE AbbreviationAt(s, i, abbreviations, a + 1)

\* re.sub(r'(<abbreviations>)\.\s', r'\1<DOT> ', text), from position i on:
\* the text up to the leftmost match is copied, the match is replaced and
\* the scan resumes after the match
RECURSIVE ProtectFrom(_, _, _)
ProtectFrom(s, i, abbreviations) ==
    LET starts == {j \in i..Len(s) :
                      AbbreviationAt(s, j, abbreviations, 1) > 0}
    IN  IF starts = {} THEN SubSeq(s, i, Len(s))
        ELSE LET start == Least(starts)
                 n == AbbreviationAt(s, start, abbreviations, 1)
             IN  SubSeq(s, i, start + n - 1) \o DotPlaceholder \o <<" ">>
                    \o ProtectFrom(s, start + n + 2, abbreviations)

\* the two re.sub calls of split_into_sentences
Protect(s) ==
    ProtectFrom(ProtectFrom(s, 1, TitleAbbreviations), 1,
                SectionAbbreviations)

\* the last position of the run of whitespace that starts at position i
SpaceRunEnd(s, i) ==
    Least({j \in i..Len(s) : j = Len(s) \/ ~IsSpace(s[j + 1])})

\* (?<=[.!?])\s+ matches at position i
BoundaryAt(s, i) ==
    /\ i > 1
    /\ i <= Len(s)
    /\ IsSpace(s[i])
    /\ s[i - 1] \in {".", "!", "?"}

\* re.split(r'(?<=[.!?])\s+', text): the pieces from position i on; the
\* piece ends before the leftmost boundary, the next one starts after its
\* whitespace
RECURSIVE SplitFrom(_, _)
SplitFrom(s, i) ==
    LET boundaries == {j \in i..Len(s) : BoundaryAt(s, j)}
    IN  IF boundaries = {} THEN <<SubSeq(s, i, Len(s))>>
        ELSE LET b == Least(boundaries)
             IN  <<SubSeq(s, i, b - 1)>> \o SplitFrom(s, SpaceRunEnd(s, b) + 1)

\* s.replace('<DOT>', '.'), from position i on
RECURSIVE RestoreFrom(_, _)
RestoreFrom(s, i) ==
    LET starts == {j \in i..Len(s) : StartsWithAt(s, j, DotPlaceholder)}
    IN  IF starts = {} THEN SubSeq(s, i, Len(s))
        ELSE SubSeq(s, i, Least(starts) - 1) \o <<".">>
                \o RestoreFrom(s, Least(starts) + Len(DotPlaceholder))

\* the length a stripped span must exceed to be kept
MinSentenceLength == 10

\* if len(s.strip()) > 10
LongEnough(s) == Len(Strip(s)) > MinSentenceLength

\* split_into_sentences (rti_semantic)
split_into_sentences(s) ==
    LET pieces == SplitFrom(Protect(s), 1)
        restored == [k \in 1..Len(pieces) |-> RestoreFrom(pieces[k], 1)]
        kept == SelectSeq(restored, LongEnough)
    IN  [k \in 1..Len(kept) |-> Strip(kept[k])]

\* the bucket that extract_structured_response appends a category to
BucketOf(category) ==
    IF category = "informative" THEN "informative_sentences"
    ELSE IF category = "denial" THEN "denial_sentences"
    ELSE IF category = "procedural" THEN "procedural_sentences"
    ELSE IF category = "evasive" THEN "evasive_sentences"
    ELSE "neutral_sentences"

\* mutant: a sentence already in its bucket is not appended again
Classify_Dedup(result, s) ==
    LET cs == classify_sentence(s)
        bucket == result[BucketOf(cs.category)]
    IN  IF \E k \in 1..Len(bucket) : bucket[k].text = cs.text
        THEN result
        ELSE [result EXCEPT ![BucketOf(cs.category)] = Append(@, cs)]

\* one turn of the loop of extract_structured_response
Classify(result, s) ==
    LET cs == classify_sentence(s)
    IN  [result EXCEPT ![BucketOf(cs.category)] = Append(@, cs)]

\* for sentence in sentences: classify and append, from sentence k on
RECURSIVE ClassifyFrom(_, _, _)
ClassifyFrom(result, sentences, k) ==
    IF k > Len(sentences) THEN result
    ELSE ClassifyFrom(Classify(result, sentences[k]), sentences, k + 1)

\* extract_structured_response
extract_structured_response(s) ==
    ClassifyFrom(StructuredRTIResponse(s, detect_rti_sections(s)),
                 split_into_sentences(s), 1)

---------------------------------------------------------------------------
(* actionability.py *)

\* ActionSuggestion(action_type, priority, title, description,
\*                  deadline=None, reference=None); None is the string "None"
ActionSuggestion(atype, prio, ttl, descr, dl, ref) ==
    [action_type |-> atype, priority |-> prio, title |-> ttl,
     description |-> descr, deadline |-> dl, reference |-> ref]

FirstAppealSuggestion ==
    ActionSuggestion("first_appeal", "high", "File First Appeal",
        "Significant information has been denied. You can file a First Appeal with the First Appellate Authority within 30 days of receiving this response. Under Section 19(1) of RTI Act, you have the right to appeal against denial.",
        "30 days from receipt of response", "Section 19(1) of RTI Act, 2005")

ClarificationSuggestion ==
    ActionSuggestion("clarification", "high", "Request Clarification",
        "The response contains vague or evasive statements that don't adequately answer your query. You can write to the PIO requesting specific clarification or file an appeal citing inadequate response.",
        "None", "Section 7(8) of RTI Act, 2005")

ChallengeExemptionSuggestion ==
    ActionSuggestion("first_appeal", "high", "Challenge Exemption Claim",
        "The PIO has cited Section 8 exemptions to deny information. You can file an appeal challenging whether the exemption genuinely applies. The burden is on the PIO to prove that the exemption is justified.",
        "30 days from receipt", "Section 8, Section 19 of RTI Act, 2005")

PayFeeSuggestion ==
    ActionSuggestion("pay_fee", "medium", "Pay Additional Fee",
        "The PIO has requested additional fees. Pay the fee within the specified timeline to receive the information. Keep the receipt as proof.",
        "None", "Section 7 of RTI Act, 2005")

TransferredSuggestion ==
    ActionSuggestion("wait", "low", "Application Transferred",
        "Your application has been transferred to another department. Wait for a response from the concerned PIO. The transfer should not reset your timeline.",
        "None", "Section 6(3) of RTI Act, 2005")

ResponseCompleteSuggestion ==
    ActionSuggestion("no_action", "low", "Response Complete",
        "The RTI response appears to adequately address your query. No further action is required unless you find the information incomplete.",
        "None", "None")

ReviewSuggestion ==
    ActionSuggestion("no_action", "low", "Review Response Carefully",
        "Review the response to determine if all your queries have been addressed. If unsatisfied, you may file a First Appeal within 30 days.",
        "30 days if appeal needed", "Section 19 of RTI Act, 2005")

\* [s.text.lower() for s in sentences]
LowerTexts(sentences) ==
    [i \in 1..Len(sentences) |-> Lower(sentences[i].text)]

\* ' '.join([s.text.lower() for s in structured.procedural_sentences])
ProceduralTexts(s) == Join(LowerTexts(s.procedural_sentences), <<" ">>)

\* priority_order.get(x.priority, 3)
PriorityOrder(p) ==
    IF p = "high" THEN 0
    ELSE IF p = "medium" THEN 1
    ELSE IF p = "low" THEN 2
    ELSE 3

\* the elements of list whose sort key is k, in list order
WithKey(list, k) ==
    LET Test(x) == PriorityOrder(x.priority) = k
    IN  SelectSeq(list, Test)

\* mutant: the sort with reverse=True
SortByPriority_Reversed(list) ==
    WithKey(list, 3) \o WithKey(list, 2) \o WithKey(list, 1)
        \o WithKey(list, 0)

\* suggestions.sort(key=...): list.sort is stable, the keys are 0..3
SortByPriority(list) ==
    WithKey(list, 0) \o WithKey(list, 1) \o WithKey(list, 2)
        \o WithKey(list, 3)

\* <<x>> if the rule's condition holds, else nothing appended
When(cond, x) == IF cond THEN <<x>> ELSE <<>>

\* mutant: rule 1 without 'or denial_count >= 2'
Rule1_RatioOnly(stats) == RatioGT(stats.denial_ratio, 3, 10)

\* Rule 1: High denial ratio
Rule1(stats) ==
    RatioGT(stats.denial_ratio, 3, 10) \/ stats.denial_count >= 2

\* mutant: rule 2 only from two evasive sentences on
Rule2_TwoEvasive(stats) == stats.evasive_count >= 2

\* Rule 2: Evasive responses
Rule2(stats) ==
    \/ stats.evasive_count >= 2
    \/ (stats.evasive_count > 0 /\ stats.informative_count = 0)

\* mutant: rule 3 only when a sentence was classified as a denial
Rule3_NeedsDenial(s) ==
    /\ "section_8" \in DOMAIN s.section_references
    /\ s.denial_sentences # <<>>

\* Rule 3: Section 8 exemptions cited
Rule3(s) == "section_8" \in DOMAIN s.section_references

\* Rule 4, fee branch
Rule4Fee(s, stats) ==
    /\ stats.procedural_count > 0
    /\ \/ Contains(ProceduralTexts(s), <<"f","e","e">>)
       \/ Contains(ProceduralTexts(s), <<"d","e","p","o","s","i","t">>)
       \/ Contains(ProceduralTexts(s), <<"p","a","y","m","e","n","t">>)

\* Rule 4, transfer branch
Rule4Transfer(s, stats) ==
    /\ stats.procedural_count > 0
    /\ \/ Contains(ProceduralTexts(s), <<"t","r","a","n","s","f","e","r">>)
       \/ Contains(ProceduralTexts(s), <<"f","o","r","w","a","r","d">>)

\* Rule 5: Good response
Rule5(stats) ==
    RatioGT(stats.informative_ratio, 6, 10) /\ stats.denial_count = 0

\* the list after rules 1 to 5
RuleSuggestions(s) ==
    LET stats == get_stats(s)
    IN  When(Rule1(stats), FirstAppealSuggestion)
        \o When(Rule2(stats), ClarificationSuggestion)
        \o When(Rule3(s), ChallengeExemptionSuggestion)
        \o When(Rule4Fee(s, stats), PayFeeSuggestion)
        \o When(Rule4Transfer(s, stats), TransferredSuggestion)
        \o When(Rule5(stats), ResponseCompleteSuggestion)

\* mutant: the default suggestion is never appended
WithDefault_Skipped(list) == list

\* Rule 6: if not suggestions: append the review suggestion
WithDefault(list) == IF list = <<>> THEN <<ReviewSuggestion>> ELSE list

\* suggest_next_steps
suggest_next_steps(s) == SortByPriority(WithDefault(RuleSuggestions(s)))

\* mutant: a cited Section 8 exemption is no reason for appeal
AppealReasons_NoExemption(s) ==
    LET stats == get_stats(s)
    IN  When(stats.denial_count > 0, "Information was denied")
        \o When(stats.evasive_count > 0,
                "Response contains evasive/unclear statements")
        \o When(stats.informative_count = 0 /\ stats.neutral_count > 3,
                "Response does not adequately address the query")

\* mutant: neutral_count >= 3 instead of > 3
AppealReasons_ThreeNeutral(s) ==
    LET stats == get_stats(s)
    IN  When(stats.denial_count > 0, "Information was denied")
        \o When("section_8" \in DOMAIN s.section_references,
                "Section 8 exemptions were cited")
        \o When(stats.evasive_count > 0,
                "Response contains evasive/unclear statements")
        \o When(stats.informative_count = 0 /\ stats.neutral_count >= 3,
                "Response does not adequately address the query")

\* the reasons list built by check_appeal_eligibility
AppealReasons(s) ==
    LET stats == get_stats(s)
    IN  When(stats.denial_count > 0, "Information was denied")
        \o When("section_8" \in DOMAIN s.section_references,
                "Section 8 exemptions were cited")
        \o When(stats.evasive_count > 0,
                "Response contains evasive/unclear statements")
        \o When(stats.informative_count = 0 /\ stats.neutral_count > 3,
                "Response does not adequately address the query")

\* check_appeal_eligibility
check_appeal_eligibility(s) ==
    [eligible    |-> Len(AppealReasons(s)) > 0,
     reasons     |-> AppealReasons(s),
     appeal_type |-> "First Appeal under Section 19(1)",
     deadline    |-> "30 days from receipt of response",
     authority   |-> "First Appellate Authority (FAA)"]

\* the flag appended for one evasive sentence
EvasiveFlag(cs) ==
    [type |-> "evasive", severity |-> "medium", text |-> cs.text,
     reason |-> "Response is vague or non-committal"]

\* the flag appended for one denial sentence without 'section'
DenialFlag(cs) ==
    [type |-> "denial_without_reason", severity |-> "high", text |-> cs.text,
     reason |-> "Denial without citing specific exemption clause"]

\* mutant: the test without .lower()
LacksSection_CaseSensitive(cs) == ~Contains(cs.text, <<"s","e","c","t","i","o","n">>)

\* if 'section' not in sentence.text.lower()
LacksSection(cs) == ~Contains(Lower(cs.text), <<"s","e","c","t","i","o","n">>)

\* flag_evasive_responses
flag_evasive_responses(s) ==
    LET unjustified == SelectSeq(s.denial_sentences, LacksSection)
    IN  [i \in 1..Len(s.evasive_sentences) |->
            EvasiveFlag(s.evasive_sentences[i])]
        \o [i \in 1..Len(unjustified) |-> DenialFlag(unjustified[i])]

Satisfactory ==
    "SATISFACTORY - Response adequately addresses most queries"

Unsatisfactory ==
    "UNSATISFACTORY - Significant information denied, consider appeal"

Inadequate == "INADEQUATE - Response is vague and non-committal"

Partial ==
    "PARTIAL - Some information provided, review for completeness"

\* mutant: the evasive test before the denial test
get_overall_assessment_EvasiveFirst(s) ==
    LET stats == get_stats(s)
    IN  IF RatioGT(stats.informative_ratio, 6, 10) THEN Satisfactory
        ELSE IF stats.evasive_count > stats.informative_count
             THEN Inadequate
        ELSE IF RatioGT(stats.denial_ratio, 4, 10) THEN Unsatisfactory
        ELSE Partial

\* mutant: denial_ratio >= 0.4 instead of > 0.4
get_overall_assessment_AtLeast(s) ==
    LET stats == get_stats(s)
    IN  IF RatioGT(stats.informative_ratio, 6, 10) THEN Satisfactory
        ELSE IF stats.denial_ratio.num * 10 >= 4 * stats.denial_ratio.den
             THEN Unsatisfactory
        ELSE IF stats.evasive_count > stats.informative_count
             THEN Inadequate
        ELSE Partial

\* _get_overall_assessment
get_overall_assessment(s) ==
    LET stats == get_stats(s)
    IN  IF RatioGT(stats.informative_ratio, 6, 10) THEN Satisfactory
        ELSE IF RatioGT(stats.denial_ratio, 4, 10) THEN Unsatisfactory
        ELSE IF stats.evasive_count > stats.informative_count
             THEN Inadequate
        ELSE Partial

\* one entry of the 'suggestions' list of the report
SuggestionDict(x) ==
    [action |-> x.action_type, priority |-> x.priority, title |-> x.title,
     description |-> x.description, deadline |-> x.deadline,
     reference |-> x.reference]

\* generate_action_report
generate_action_report(s) ==
    [suggestions |-> [i \in 1..Len(suggest_next_steps(s)) |->
                         SuggestionDict(suggest_next_steps(s)[i])],
     appeal_eligibility |-> check_appeal_eligibility(s),
     flags |-> flag_evasive_responses(s),
     overall_assessment |-> get_overall_assessment(s)]

---------------------------------------------------------------------------
(* logger.py *)

\* the number of entries log_quota_failure keeps
MaxLogEntries == 1000

\* str(error_message)[:500]
MaxMessageChars == 500

\* s[:n]
Truncate(s, n) == SubSeq(s, 1, Min(Len(s), n))

\* the log entry of log_quota_failure
QuotaFailureEntry(ts, error_type, error_message, endpoint, context, fallback_used) ==
    [timestamp |-> ts, event_type |-> "quota_failure",
     error_type |-> error_type,
     error_message |-> Truncate(error_message, MaxMessageChars),
     endpoint |-> endpoint, fallback_used |-> fallback_used,
     context |-> context]

\* the log entry of log_fallback_activation
FallbackActivationEntry(ts, reason, summary_type, success) ==
    [timestamp |-> ts, event_type |-> "fallback_activation",
     reason |-> reason, summary_type |-> summary_type, success |-> success]

\* the log entry of log_api_success
ApiSuccessEntry(ts, endpoint, summary_type) ==
    [timestamp |-> ts, event_type |-> "api_success", endpoint |-> endpoint,
     summary_type |-> summary_type]

\* logs[-n:]
KeepLast(list, n) ==
    IF Len(list) <= n THEN list ELSE SubSeq(list, Len(list) - n + 1, Len(list))

\* QuotaLogger.log_quota_failure: the stored list after the call
log_quota_failure(list, entry) ==
    LET appended == Append(list, entry)
    IN  IF Len(appended) > MaxLogEntries
        THEN KeepLast(appended, MaxLogEntries)
        ELSE appended

\* QuotaLogger.log_fallback_activation: the stored list after the call
log_fallback_activation(list, entry) == Append(list, entry)

\* QuotaLogger.log_api_success: the stored list after the call
log_api_success(list, entry) == Append(list, entry)

---------------------------------------------------------------------------
(* summarizer.py *)

\* the substrings _is_quota_error looks for
QuotaMarkers ==
    <<<<"4","2","9">>,
      <<"q","u","o","t","a">>,
      <<"r","a","t","e"," ","l","i","m","i","t">>,
      <<"r","e","s","o","u","r","c","e"," ","e","x","h","a","u","s","t","e","d">>>>

\* _is_quota_error, on str(error)
is_quota_error(message) ==
    \E k \in 1..Len(QuotaMarkers) : Contains(Lower(message), QuotaMarkers[k])

\* setup_gemini: key = api_key or GEMINI_API_KEY; False if not key
setup_gemini(api_key, cfg) == api_key \/ cfg.GEMINI_API_KEY

\* @dataclass SummaryResult(text, source, timestamp, summary_type)
SummaryResult(txt, source, ts, summary_type) ==
    [text |-> txt, source |-> source, timestamp |-> ts,
     summary_type |-> summary_type]

\* the method of _fallback each function calls
FallbackMethod ==
    [summary_type \in {"ultra_short", "citizen_friendly", "technical"} |->
        CASE summary_type = "ultra_short" -> "generate_ultra_short"
          [] summary_type = "citizen_friendly" -> "generate_citizen_summary"
          [] summary_type = "technical" -> "generate_technical_summary"]

\* result['text'] of the local fallback summarizer on the full text
FallbackText(summary_type, full_text) ==
    [method |-> FallbackMethod[summary_type], text |-> full_text]

\* "Error: Gemini API key not configured."
KeyNotConfiguredText ==
    <<"E","r","r","o","r",":"," ","G","e","m","i","n","i"," ","A","P","I"," ","k","e","y"," ","n","o","t"," ","c","o","n","f","i","g","u","r","e","d",".">>

\* "API key not configured"
KeyNotConfiguredReason ==
    <<"A","P","I"," ","k","e","y"," ","n","o","t"," ","c","o","n","f","i","g","u","r","e","d">>

\* "Error generating summary: "
ErrorPrefix ==
    <<"E","r","r","o","r"," ","g","e","n","e","r","a","t","i","n","g"," ","s","u","m","m","a","r","y",":"," ">>

\* str(e)[:100]
MaxReasonChars == 100

\* "429" if "429" in str(e) else "quota_error"
ErrorType(message) ==
    IF Contains(message, <<"4","2","9">>) THEN "429" ELSE "quota_error"

\* the result of a call with the log and the clock it leaves
Returned(result, list, clock) ==
    [result |-> result, logs |-> list, now |-> clock]

\* the branch taken when setup_gemini returns False
WithoutKey(summary_type, full_text, cfg, list, ts) ==
    IF cfg.ENABLE_LOCAL_FALLBACK
    THEN Returned(SummaryResult(FallbackText(summary_type, full_text),
                                "local_fallback", ts, summary_type),
                  log_fallback_activation(list,
                      FallbackActivationEntry(ts + 1, KeyNotConfiguredReason,
                                              summary_type, TRUE)),
                  ts + 1)
    ELSE Returned(SummaryResult(KeyNotConfiguredText, "error", ts,
                                summary_type),
                  list, ts)

\* the try block when the model call returns
OnResponse(summary_type, response, cfg, list, ts) ==
    Returned(SummaryResult(Strip(response), "gemini", ts, summary_type),
             IF cfg.LOG_QUOTA_FAILURES
             THEN log_api_success(list,
                                  ApiSuccessEntry(ts + 1, "gemini",
                                                  summary_type))
             ELSE list,
             IF cfg.LOG_QUOTA_FAILURES THEN ts + 1 ELSE ts)

\* the except block: e is the exception raised in the try block
OnException(summary_type, full_text, message, cfg, list, ts) ==
    IF is_quota_error(message) /\ cfg.ENABLE_LOCAL_FALLBACK
    THEN LET logged ==
                 IF cfg.LOG_QUOTA_FAILURES
                 THEN log_quota_failure(list,
                          QuotaFailureEntry(ts + 1, ErrorType(message),
                              message, "gemini",
                              [summary_type |-> summary_type], TRUE))
                 ELSE list
             clock == IF cfg.LOG_QUOTA_FAILURES THEN ts + 1 ELSE ts
         IN  Returned(SummaryResult(FallbackText(summary_type, full_text),
                                    "local_fallback", ts, summary_type),
                      log_fallback_activation(logged,
                          FallbackActivationEntry(clock + 1,
                              Truncate(message, MaxReasonChars),
                              summary_type, TRUE)),
                      clock + 1)
    ELSE Returned(SummaryResult(ErrorPrefix \o message, "error", ts,
                                summary_type),
                  list, ts)

\* generate_ultra_short_summary, generate_citizen_summary and
\* generate_technical_summary: the same body with its own summary_type;
\* outcome is what the Gemini call does if it is reached; the timestamp is
\* the first reading of the clock
generate_summary(summary_type, full_text, api_key, outcome, cfg, list, clock) ==
    LET ts == clock + 1
    IN  IF cfg.FALLBACK_MODE = "local_only"
        THEN Returned(SummaryResult(FallbackText(summary_type, full_text),
                                    "local_fallback", ts, summary_type),
                      list, ts)
        ELSE IF ~setup_gemini(api_key, cfg)
        THEN WithoutKey(summary_type, full_text, cfg, list, ts)
        ELSE IF outcome.raised
        THEN OnException(summary_type, full_text, outcome.message, cfg,
                         list, ts)
        ELSE OnResponse(summary_type, outcome.text, cfg, list, ts)

---------------------------------------------------------------------------
(* fact_extractor.py: fact-density scoring *)

\* FACT_KEYWORDS['actions']
FACT_ACTIONS ==
    <<<<"p","r","o","v","i","d","e","d">>,
      <<"p","r","o","c","e","s","s","e","d">>,
      <<"c","r","e","d","i","t","e","d">>,
      <<"t","r","a","n","s","f","e","r","r","e","d">>,
      <<"c","o","m","p","l","e","t","e","d">>,
      <<"a","p","p","r","o","v","e","d">>,
      <<"s","a","n","c","t","i","o","n","e","d">>,
      <<"i","s","s","u","e","d">>,
      <<"g","r","a","n","t","e","d">>,
      <<"r","e","c","e","i","v","e","d">>,
      <<"d","i","s","p","a","t","c","h","e","d">>,
      <<"f","o","r","w","a","r","d","e","d">>,
      <<"d","e","p","o","s","i","t","e","d">>,
      <<"v","e","r","i","f","i","e","d">>,
      <<"c","o","n","f","i","r","m","e","d">>>>

\* FACT_KEYWORDS['denials']
FACT_DENIALS ==
    <<<<"d","e","n","i","e","d">>,
      <<"r","e","j","e","c","t","e","d">>,
      <<"c","a","n","n","o","t"," ","b","e"," ","p","r","o","v","i","d","e","d">>,
      <<"n","o","t"," ","a","v","a","i","l","a","b","l","e">>,
      <<"e","x","e","m","p","t","i","o","n">>,
      <<"s","e","c","t","i","o","n"," ","8">>,
      <<"c","o","n","f","i","d","e","n","t","i","a","l">>,
      <<"n","o","t"," ","m","a","i","n","t","a","i","n","e","d">>>>

\* FACT_KEYWORDS['authorities']
FACT_AUTHORITIES ==
    <<<<"m","i","n","i","s","t","r","y">>,
      <<"d","e","p","a","r","t","m","e","n","t">>,
      <<"o","f","f","i","c","e">>,
      <<"c","p","i","o">>,
      <<"p","i","o">>,
      <<"a","u","t","h","o","r","i","t","y">>,
      <<"c","o","m","m","i","s","s","i","o","n","e","r">>,
      <<"s","e","c","r","e","t","a","r","y">>,
      <<"o","f","f","i","c","e","r">>>>

\* the characters of \d
Digits == {"0","1","2","3","4","5","6","7","8","9"}

\* the characters of \s
Spaces == {" ", "\n", "\t"}

\* a repetition with no upper limit (*, +)
NoLimit == 0 - 1

\* pattern elements.  Rep: a character class repeated min..max times,
\* greedy.  OneOf: a group of literal alternatives, tried in order, lower
\* case because the patterns are used with re.IGNORECASE.  Maybe: the
\* same group followed by '?'
Rep(chars, min, max) ==
    [kind |-> "class", chars |-> chars, min |-> min, max |-> max,
     alts |-> <<>>, optional |-> FALSE]
OneOf(alts) ==
    [kind |-> "group", chars |-> {}, min |-> 1, max |-> 1,
     alts |-> alts, optional |-> FALSE]
Maybe(alts) ==
    [kind |-> "group", chars |-> {}, min |-> 0, max |-> 1,
     alts |-> alts, optional |-> TRUE]

\* the three characters of the second amount pattern, U+00E2 U+201A
\* U+00B9, each written as one token
RupeeSign == <<"U+00E2", "U+201A", "U+00B9">>

\* FACT_KEYWORDS['amounts']:
\*   Rs\.?\s*[\d,]+    <U+00E2 U+201A U+00B9>\s*[\d,]+    INR\s*[\d,]+
\*   \d+\s*(?:lakh|crore|thousand)    amount(?:ing)?\s+(?:of|to)
FACT_AMOUNTS ==
    << <<OneOf(<<<<"r","s">>>>), Rep({"."}, 0, 1), Rep(Spaces, 0, NoLimit),
         Rep(Digits \cup {","}, 1, NoLimit)>>,
       <<OneOf(<<RupeeSign>>), Rep(Spaces, 0, NoLimit),
         Rep(Digits \cup {","}, 1, NoLimit)>>,
       <<OneOf(<<<<"i","n","r">>>>), Rep(Spaces, 0, NoLimit),
         Rep(Digits \cup {","}, 1, NoLimit)>>,
       <<Rep(Digits, 1, NoLimit), Rep(Spaces, 0, NoLimit),
         OneOf(<<<<"l","a","k","h">>, <<"c","r","o","r","e">>, <<"t","h","o","u","s","a","n","d">>>>)>>,
       <<OneOf(<<<<"a","m","o","u","n","t","i","n","g">>, <<"a","m","o","u","n","t">>>>),
         Rep(Spaces, 1, NoLimit),
         OneOf(<<<<"o","f">>, <<"t","o">>>>)>> >>

\* (?:January|February|...|December)
MonthNames ==
    <<<<"j","a","n","u","a","r","y">>,
      <<"f","e","b","r","u","a","r","y">>,
      <<"m","a","r","c","h">>,
      <<"a","p","r","i","l">>,
      <<"m","a","y">>,
      <<"j","u","n","e">>,
      <<"j","u","l","y">>,
      <<"a","u","g","u","s","t">>,
      <<"s","e","p","t","e","m","b","e","r">>,
      <<"o","c","t","o","b","e","r">>,
      <<"n","o","v","e","m","b","e","r">>,
      <<"d","e","c","e","m","b","e","r">>>>

\* \d{1,2}[-/]\d{1,2}[-/]\d{2,4}
NumericDate ==
    <<Rep(Digits, 1, 2), Rep({"-", "/"}, 1, 1), Rep(Digits, 1, 2),
      Rep({"-", "/"}, 1, 1), Rep(Digits, 2, 4)>>

\* FACT_KEYWORDS['dates']:
\*   \d{1,2}(?:st|nd|rd|th)?\s+(?:<month>),?\s+\d{4}
\*   \d{1,2}[-/]\d{1,2}[-/]\d{2,4}
\*   (?:dated?|on)\s+\d{1,2}[-/]\d{1,2}[-/]\d{2,4}
FACT_DATES ==
    << <<Rep(Digits, 1, 2),
         Maybe(<<<<"s","t">>, <<"n","d">>, <<"r","d">>, <<"t","h">>>>),
         Rep(Spaces, 1, NoLimit), OneOf(MonthNames), Rep({","}, 0, 1),
         Rep(Spaces, 1, NoLimit), Rep(Digits, 4, 4)>>,
       NumericDate,
       <<OneOf(<<<<"d","a","t","e","d">>, <<"d","a","t","e">>, <<"o","n">>>>),
         Rep(Spaces, 1, NoLimit)>> \o NumericDate >>

\* the number of characters of a class that stand at position i on, up
\* to the limit of the repetition, counted from n
RECURSIVE RunLength(_, _, _, _, _)
RunLength(s, i, chars, max, n) ==
    IF \/ n = max
       \/ i + n > Len(s)
       \/ s[i + n] \notin chars
    THEN n
    ELSE RunLength(s, i, chars, max, n + 1)

\* the length of the first alternative (from alternative a on) that stands
\* at position i of the lower-cased text; -1 if none does
RECURSIVE AlternativeAt(_, _, _, _)
AlternativeAt(low, i, alts, a) ==
    IF a > Len(alts) THEN 0 - 1
    ELSE IF StartsWithAt(low, i, alts[a]) THEN Len(alts[a])
    ELSE AlternativeAt(low, i, alts, a + 1)

\* match the elements k.. of a pattern at position i of the lower-cased
\* text: the position after the match, or 0 if there is none.  What
\* follows a repetition never starts with a character of its class, so
\* the greedy choice is the only one that can match.
RECURSIVE MatchElements(_, _, _, _)
MatchElements(low, i, pattern, k) ==
    IF k > Len(pattern) THEN i
    ELSE LET e == pattern[k]
         IN  IF e.kind = "class"
             THEN LET run == RunLength(low, i, e.chars, e.max, 0)
                  IN  IF run < e.min THEN 0
                      ELSE MatchElements(low, i + run, pattern, k + 1)
             ELSE LET n == AlternativeAt(low, i, e.alts, 1)
                  IN  IF n >= 0
                      THEN MatchElements(low, i + n, pattern, k + 1)
                      ELSE IF e.optional
                           THEN MatchElements(low, i, pattern, k + 1)
                           ELSE 0

\* re.findall(pattern, sentence, re.IGNORECASE) from position i on: the
\* matched substrings, leftmost first, not overlapping
RECURSIVE FindAllFrom(_, _, _, _)
FindAllFrom(s, low, pattern, i) ==
    LET starts == {j \in i..Len(s) : MatchElements(low, j, pattern, 1) # 0}
    IN  IF starts = {} THEN <<>>
        ELSE LET start == Least(starts)
                 stop == MatchElements(low, start, pattern, 1)
             IN  <<SubSeq(s, start, stop - 1)>>
                    \o FindAllFrom(s, low, pattern, stop)

\* re.findall(pattern, sentence, re.IGNORECASE)
FindAll(s, pattern) == FindAllFrom(s, Lower(s), pattern, 1)

\* the matches of every pattern of a list, pattern by pattern
RECURSIVE AllMatches(_, _, _)
AllMatches(s, patterns, k) ==
    IF k > Len(patterns) THEN <<>>
    ELSE FindAll(s, patterns[k]) \o AllMatches(s, patterns, k + 1)

\* the keywords of a list with 'keyword in sentence_lower'
KeywordsIn(s, keywords) ==
    LET sentence_lower == Lower(s)
        Found(keyword) == Contains(sentence_lower, keyword)
    IN  SelectSeq(keywords, Found)

\* len(sentence.split()): the number of runs of non-whitespace characters
WordCount(s) ==
    Cardinality({i \in 1..Len(s) :
                    /\ ~IsSpace(s[i])
                    /\ (i = 1 \/ IsSpace(s[i - 1]))})

\* one unit of fact score: a float x is the integer 4 * x
FactUnit == 4

\* the weights 2.0, 2.5, 3.0, 2.5, 1.0 and the length bonuses 1.0, 0.5
ActionWeight == 2 * FactUnit
DenialWeight == (5 * FactUnit) \div 2
AmountWeight == 3 * FactUnit
DateWeight == (5 * FactUnit) \div 2
AuthorityWeight == FactUnit
MediumBonus == FactUnit
LongBonus == FactUnit \div 2

\* the word counts of the length shaping: 15 <= n <= 50, n > 50, n < 5
MediumWords == 15
LongWords == 50
ShortWords == 5

\* the bonus for sentence length
LengthBonus(word_count) ==
    IF MediumWords <= word_count /\ word_count <= LongWords THEN MediumBonus
    ELSE IF word_count > LongWords THEN LongBonus
    ELSE 0

\* mutant: the penalty for short sentences left out
ShortPenalty_None(score, word_count) == score

\* if word_count < 5: score *= 0.5
ShortPenalty(score, word_count) ==
    IF word_count < ShortWords THEN score \div 2 ELSE score

\* calculate_sentence_score: (score, details), the score in units of
\* 1/FactUnit
calculate_sentence_score(s) ==
    LET details == [actions |-> KeywordsIn(s, FACT_ACTIONS),
                    denials |-> KeywordsIn(s, FACT_DENIALS),
                    amounts |-> AllMatches(s, FACT_AMOUNTS, 1),
                    dates |-> AllMatches(s, FACT_DATES, 1),
                    authorities |-> KeywordsIn(s, FACT_AUTHORITIES)]
        word_count == WordCount(s)
        score == ActionWeight * Len(details.actions)
                 + DenialWeight * Len(details.denials)
                 + AmountWeight * Len(details.amounts)
                 + DateWeight * Len(details.dates)
                 + AuthorityWeight * Len(details.authorities)
                 + LengthBonus(word_count)
    IN  [score |-> ShortPenalty(score, word_count), details |-> details]

---------------------------------------------------------------------------
(* fact_extractor.py: sentence segmentation and anchor selection *)

\* the alternative of Rs
RupeeAbbreviations == <<<<"R","s">>>>

\* the length of the first abbreviation (from alternative a on) that stands
\* at position i followed by '.'; 0 if none
RECURSIVE DottedAbbreviationAt(_, _, _, _)
DottedAbbreviationAt(s, i, abbreviations, a) ==
    IF a > Len(abbreviations) THEN 0
    ELSE LET n == Len(abbreviations[a])
         IN  IF /\ StartsWithAt(s, i, abbreviations[a])
                /\ i + n <= Len(s)
                /\ s[i + n] = "."
             THEN n
             ELSE DottedAbbreviationAt(s, i, abbreviations, a + 1)

\* re.sub(r'(<abbreviations>)\.', r'\1<DOT>', text), from position i on
RECURSIVE ProtectDottedFrom(_, _, _)
ProtectDottedFrom(s, i, abbreviations) ==
    LET starts == {j \in i..Len(s) :
                      DottedAbbreviationAt(s, j, abbreviations, 1) > 0}
    IN  IF starts = {} THEN SubSeq(s, i, Len(s))
        ELSE LET start == Least(starts)
                 n == DottedAbbreviationAt(s, start, abbreviations, 1)
             IN  SubSeq(s, i, start + n - 1) \o DotPlaceholder
                    \o ProtectDottedFrom(s, start + n + 1, abbreviations)

\* the three re.sub calls of split_into_sentences (fact_extractor)
ProtectDotted(s) ==
    ProtectDottedFrom(
        ProtectDottedFrom(
            ProtectDottedFrom(s, 1, TitleAbbreviations),
            1, SectionAbbreviations),
        1, RupeeAbbreviations)

\* the length a stripped span must exceed to be kept as a fact sentence
MinFactSentenceLength == 15

\* if len(s.strip()) > 15
LongEnoughForFact(s) == Len(Strip(s)) > MinFactSentenceLength

\* split_into_sentences (fact_extractor)
fact_split_into_sentences(s) ==
    LET pieces == SplitFrom(ProtectDotted(s), 1)
        restored == [k \in 1..Len(pieces) |-> RestoreFrom(pieces[k], 1)]
        kept == SelectSeq(restored, LongEnoughForFact)
    IN  [k \in 1..Len(kept) |-> Strip(kept[k])]

\* the default of the top_n parameter
DefaultTopN == 5

\* min_score = 1.0
MinScore == FactUnit

\* the number of sentences taken when none meets the threshold
FallbackCount == 2

\* the loop that fills scored_sentences, from sentence k on
RECURSIVE ScoredFrom(_, _)
ScoredFrom(sentences, k) ==
    IF k > Len(sentences) THEN <<>>
    ELSE LET result == calculate_sentence_score(sentences[k])
         IN  <<[sentence |-> sentences[k], score |-> result.score,
                details |-> result.details]>>
                \o ScoredFrom(sentences, k + 1)

\* the scored_sentences list before the sort
ScoredSentences(sentences) == ScoredFrom(sentences, 1)

\* mutant: a sort by score that puts later entries first among equals
SortByScore_Unstable(list) ==
    LET n == Len(list)
        Before(i, j) ==
            \/ list[i].score > list[j].score
            \/ list[i].score = list[j].score /\ i > j
        Rank(i) == 1 + Cardinality({j \in 1..n : Before(j, i)})
    IN  [r \in 1..n |-> list[CHOOSE i \in 1..n : Rank(i) = r]]

\* scored_sentences.sort(key=lambda x: x['score'], reverse=True): by
\* score descending; the sort is stable, entries of equal score keep
\* their order
SortByScore(list) ==
    LET n == Len(list)
        Before(i, j) ==
            \/ list[i].score > list[j].score
            \/ list[i].score = list[j].score /\ i < j
        Rank(i) == 1 + Cardinality({j \in 1..n : Before(j, i)})
    IN  [r \in 1..n |-> list[CHOOSE i \in 1..n : Rank(i) = r]]

\* list[:n] for any integer n
Slice(list, n) ==
    IF n >= 0 THEN SubSeq(list, 1, Min(n, Len(list)))
    ELSE SubSeq(list, 1, Max(0, Len(list) + n))

\* the loop over scored_sentences[:top_n] that keeps score >= min_score
MeetingThreshold(sorted, n) ==
    LET Meets(item) == item.score >= MinScore
    IN  SelectSeq(Slice(sorted, n), Meets)

\* the sentences of a list of scored entries
SentencesOf(list) == [k \in 1..Len(list) |-> list[k].sentence]

\* extract_fact_anchors
extract_fact_anchors(s, n) ==
    LET sentences == fact_split_into_sentences(s)
    IN  IF sentences = <<>> THEN <<>>
        ELSE LET sorted == SortByScore(ScoredSentences(sentences))
                 met == MeetingThreshold(sorted, n)
             IN  IF met = <<>>
                 THEN SentencesOf(Slice(sorted, FallbackCount))
                 ELSE SentencesOf(met)

---------------------------------------------------------------------------
(* Inputs of the rule-engine runs: sentence texts a caller may put in the
   buckets of a StructuredRTIResponse *)

\* "Details are enclosed."
TextDetailsEnclosed ==
    <<"D","e","t","a","i","l","s"," ","a","r","e"," ","e","n","c","l","o","s","e","d",".">>

\* "Kindly acknowledge this."
TextAcknowledge ==
    <<"K","i","n","d","l","y"," ","a","c","k","n","o","w","l","e","d","g","e"," ","t","h","i","s",".">>

\* "Request denied."
TextRequestDenied ==
    <<"R","e","q","u","e","s","t"," ","d","e","n","i","e","d",".">>

\* "Refused under SECTION 8."
TextRefusedSection ==
    <<"R","e","f","u","s","e","d"," ","u","n","d","e","r"," ","S","E","C","T","I","O","N"," ","8",".">>

\* "Records not maintained."
TextNotMaintained ==
    <<"R","e","c","o","r","d","s"," ","n","o","t"," ","m","a","i","n","t","a","i","n","e","d",".">>

\* "Query is vague."
TextVague ==
    <<"Q","u","e","r","y"," ","i","s"," ","v","a","g","u","e",".">>

\* "Please deposit the Fee."
TextDepositFee ==
    <<"P","l","e","a","s","e"," ","d","e","p","o","s","i","t"," ","t","h","e"," ","F","e","e",".">>

\* "Forwarded to CPIO."
TextForwarded ==
    <<"F","o","r","w","a","r","d","e","d"," ","t","o"," ","C","P","I","O",".">>

\* "Time extension sought."
TextTimeExtension ==
    <<"T","i","m","e"," ","e","x","t","e","n","s","i","o","n"," ","s","o","u","g","h","t",".">>

\* "PAYMENT is due."
TextPaymentDue ==
    <<"P","A","Y","M","E","N","T"," ","i","s"," ","d","u","e",".">>

\* "exempt under Section 8"
TextExemptExcerpt ==
    <<"e","x","e","m","p","t"," ","u","n","d","e","r"," ","S","e","c","t","i","o","n"," ","8">>

\* "may appeal"
TextAppealExcerpt ==
    <<"m","a","y"," ","a","p","p","e","a","l">>

\* the texts appended to each bucket
EngineTexts ==
    [informative_sentences |-> {TextDetailsEnclosed},
     denial_sentences      |-> {TextRequestDenied, TextRefusedSection},
     procedural_sentences  |-> {TextDepositFee, TextForwarded,
                                TextTimeExtension, TextPaymentDue},
     evasive_sentences     |-> {TextNotMaintained, TextVague},
     neutral_sentences     |-> {TextAcknowledge}]

\* the category of the sentences of each bucket
BucketCategory ==
    [informative_sentences |-> "informative",
     denial_sentences      |-> "denial",
     procedural_sentences  |-> "procedural",
     evasive_sentences     |-> "evasive",
     neutral_sentences     |-> "neutral"]

Buckets == DOMAIN BucketCategory

\* the document-level section_references given to the constructor
EngineSectionRefs ==
    {EmptyDict,
     [k \in {"section_8"} |-> <<TextExemptExcerpt>>],
     [k \in {"section_19"} |-> <<TextAppealExcerpt>>]}

\* the one text per bucket of the counting scenario
ScenarioText ==
    [informative_sentences |-> TextDetailsEnclosed,
     denial_sentences      |-> TextRequestDenied,
     procedural_sentences  |-> TextTimeExtension,
     evasive_sentences     |-> TextVague,
     neutral_sentences     |-> TextAcknowledge]

\* all sequences of at most n elements of S
BoundedSeq(S, n) == UNION {[1..k -> S] : k \in 0..n}

\* the fragments short sentences are made of: keywords of each list, a
\* keyword of two lists, section mentions with and without a keyword,
\* transfer words, a plain phrase
SentenceFragments ==
    {<<"d","e","n","i","e","d">>,
     <<"e","x","e","m","p","t">>,
     <<"e","n","c","l","o","s","e","d">>,
     <<"i","s"," ","v","a","g","u","e">>,
     <<"n","o","t"," ","a","v","a","i","l","a","b","l","e">>,
     <<"f","o","r","w","a","r","d","e","d"," ","t","o">>,
     <<"C","P","I","O">>,
     <<"S","e","c","t","i","o","n"," ","7">>,
     <<"t","h","e"," ","r","e","c","o","r","d">>,
     <<"t","r","a","n","s","f","e","r","r","e","d"," ","t","o">>,
     <<"S","e","c","."," ","8">>,
     <<"i","n","f","o","r","m","a","t","i","o","n"," ","i","s">>}

\* runs of keywords: seven denial keywords (score 7/14) and four
\* informative keywords (score 4/8)
KeywordRuns ==
    {<<"d","e","n","i","e","d"," ","r","e","j","e","c","t","e","d"," ","r","e","f","u","s","e","d"," ","d","e","c","l","i","n","e"," ","c","o","n","f","i","d","e","n","t","i","a","l"," ","c","l","a","s","s","i","f","i","e","d"," ","s","e","n","s","i","t","i","v","e">>,
     <<"i","n","f","o","r","m","a","t","i","o","n"," ","i","s"," ","e","n","c","l","o","s","e","d"," ","a","t","t","a","c","h","e","d"," ","d","a","t","a"," ","s","h","o","w","s">>}

\* whitespace-only sentences
BlankSentences == {<<" ">>, <<" ","\n"," ">>}

\* the sentences of Scenario 1 and Scenario 2:
\* "Information cannot be provided as it is exempt under Section 8 of the Act."
\* "Your application has been transferred to the concerned department for necessary action."
ScenarioSentences ==
    {<<"I","n","f","o","r","m","a","t","i","o","n"," ","c","a","n","n","o","t"," ","b","e"," ","p","r","o","v","i","d","e","d"," ","a","s"," ","i","t"," ","i","s"," ","e","x","e","m","p","t"," ","u","n","d","e","r"," ","S","e","c","t","i","o","n"," ","8"," ","o","f"," ","t","h","e"," ","A","c","t",".">>,
     <<"Y","o","u","r"," ","a","p","p","l","i","c","a","t","i","o","n"," ","h","a","s"," ","b","e","e","n"," ","t","r","a","n","s","f","e","r","r","e","d"," ","t","o"," ","t","h","e"," ","c","o","n","c","e","r","n","e","d"," ","d","e","p","a","r","t","m","e","n","t"," ","f","o","r"," ","n","e","c","e","s","s","a","r","y"," ","a","c","t","i","o","n",".">>}

\* ten denial keywords with an exemption mention: a score above 1.0
\* "cannot be provided denied rejected exemption not available refused decline confidential classified"
SaturatedSentence ==
    <<"c","a","n","n","o","t"," ","b","e"," ","p","r","o","v","i","d","e","d"," ","d","e","n","i","e","d"," ","r","e","j","e","c","t","e","d"," ","e","x","e","m","p","t","i","o","n"," ","n","o","t"," ","a","v","a","i","l","a","b","l","e"," ","r","e","f","u","s","e","d"," ","d","e","c","l","i","n","e"," ","c","o","n","f","i","d","e","n","t","i","a","l"," ","c","l","a","s","s","i","f","i","e","d">>

\* the sentences given to classify_sentence: fragments joined by spaces,
\* and keyword runs joined by spaces
Sentences ==
    {Join(f, <<" ">>) : f \in BoundedSeq(SentenceFragments, MaxFragments)}
        \cup {Join(f, <<" ">>) : f \in BoundedSeq(KeywordRuns, MaxFragments)}
        \cup BlankSentences \cup ScenarioSentences \cup {SaturatedSentence}

\* the chunks documents are made of: a sentence of each category, spans
\* too short to be kept (one of them an exemption word), a bare newline
DocumentChunks ==
    {<<"D","e","t","a","i","l","s"," ","a","r","e"," ","e","n","c","l","o","s","e","d",".">>,
     <<"R","e","q","u","e","s","t"," ","i","s"," ","d","e","n","i","e","d"," ","a","s"," ","e","x","e","m","p","t",".">>,
     <<"F","o","r","w","a","r","d","e","d"," ","t","o"," ","C","P","I","O",".">>,
     <<"T","h","e"," ","q","u","e","r","y"," ","i","s"," ","v","a","g","u","e",".">>,
     <<"K","i","n","d","l","y"," ","a","c","k","n","o","w","l","e","d","g","e",".">>,
     <<"T","h","a","n","k","s",".">>,
     <<"E","x","e","m","p","t",".">>,
     <<"\n">>}

\* the documents given to extract_structured_response: chunks joined by
\* spaces
Documents ==
    {Join(c, <<" ">>) : c \in BoundedSeq(DocumentChunks, MaxChunks)}

\* the fragments scored sentences are made of: an action verb, a denial
\* word, amounts, dates (the third one matched by two patterns),
\* authority words (the second one holds two keywords), a plain word
ScoreFragments ==
    {<<"c","r","e","d","i","t","e","d">>,
     <<"d","e","n","i","e","d">>,
     <<"R","s","."," ","4","5",",","6","7","8">>,
     <<"2","5","t","h"," ","O","c","t","o","b","e","r",","," ","2","0","2","4">>,
     <<"o","n"," ","1","2","/","1","0","/","2","0","2","4">>,
     <<"t","h","e"," ","o","f","f","i","c","e">>,
     <<"C","P","I","O">>,
     <<"5"," ","l","a","k","h">>,
     <<"w","a","s">>}

\* the numbers of filler words put after the fragments, to reach each
\* range of the length shaping
PadWordCounts == {0, 3, 12, 47}

\* s followed by n filler words
Pad(s, n) == Join(<<s>> \o [k \in 1..n |-> <<"a">>], <<" ">>)

\* the sentence of Scenario 4:
\* "Rs. 45,678 was credited on 25th October, 2024"
ScenarioFourSentence ==
    <<"R","s","."," ","4","5",",","6","7","8"," ","w","a","s"," ","c","r","e","d","i","t","e","d"," ","o","n"," ","2","5","t","h"," ","O","c","t","o","b","e","r",","," ","2","0","2","4">>

\* the sentences given to calculate_sentence_score
ScoreSentences ==
    {Pad(Join(f, <<" ">>), n) :
        f \in BoundedSeq(ScoreFragments, MaxScoreFragments),
        n \in PadWordCounts}
        \cup {ScenarioFourSentence}

\* the chunks fact-anchor documents are made of: sentences of score 7.5,
\* 0, 0, 1.0 and 0.5
AnchorChunks ==
    {<<"R","s","."," ","4","5",",","6","7","8"," ","w","a","s"," ","c","r","e","d","i","t","e","d"," ","o","n"," ","2","5","t","h"," ","O","c","t","o","b","e","r",","," ","2","0","2","4",".">>,
     <<"P","l","e","a","s","e"," ","w","a","i","t"," ","f","o","r"," ","f","u","r","t","h","e","r"," ","u","p","d","a","t","e","s",".">>,
     <<"K","i","n","d","l","y"," ","a","c","k","n","o","w","l","e","d","g","e"," ","r","e","c","e","i","p","t",".">>,
     <<"T","h","e"," ","o","f","f","i","c","e"," ","i","s"," ","c","l","o","s","e","d"," ","t","o","d","a","y",".">>,
     <<"C","o","n","t","a","c","t"," ","t","h","e"," ","P","I","O"," ","n","o","w",".">>}

\* the documents given to extract_fact_anchors: chunks joined by spaces
AnchorDocuments ==
    {Join(c, <<" ">>) : c \in BoundedSeq(AnchorChunks, MaxAnchorChunks)}

\* the chunks of the documents that are processed more than once: a
\* denial with an exemption mention, a sentence rich in facts, a plain one
RepeatChunks ==
    {<<"R","e","q","u","e","s","t"," ","i","s"," ","d","e","n","i","e","d"," ","a","s"," ","e","x","e","m","p","t",".">>,
     <<"R","s","."," ","4","5",",","6","7","8"," ","w","a","s"," ","c","r","e","d","i","t","e","d"," ","o","n"," ","2","5","t","h"," ","O","c","t","o","b","e","r",","," ","2","0","2","4",".">>,
     <<"K","i","n","d","l","y"," ","a","c","k","n","o","w","l","e","d","g","e"," ","r","e","c","e","i","p","t",".">>}

\* the documents that are processed more than once: at most two chunks
\* joined by spaces
RepeatDocuments ==
    {Join(c, <<" ">>) : c \in [1..0 -> RepeatChunks] \cup [1..1 -> RepeatChunks]
                                \cup [1..2 -> RepeatChunks]}

\* the sentences that are classified more than once
RepeatSentences == ScenarioSentences \cup BlankSentences

\* the chunks segmented documents are made of: sentences with protected
\* abbreviations ("Rs. 45,678 was credited.", "The amount of Rs. 45,678
\* was credited.", "Mr. Rao signed it.", "See Sec. 8 of the Act.",
\* "Refer to No. 5 etc. and reply."), spans of 9, 10, 11, 14, 15 and 16
\* characters ("No reply.", "Denied it.", "It is late.", "Fee is due on.",
\* "Request denied.", "Fee is paid now."), and whitespace
SegmentChunks ==
    {<<"R","s","."," ","4","5",",","6","7","8"," ","w","a","s"," ","c","r","e","d","i","t","e","d",".">>,
     <<"T","h","e"," ","a","m","o","u","n","t"," ","o","f"," ","R","s","."," ","4","5",",","6","7","8"," ","w","a","s"," ","c","r","e","d","i","t","e","d",".">>,
     <<"M","r","."," ","R","a","o"," ","s","i","g","n","e","d"," ","i","t",".">>,
     <<"S","e","e"," ","S","e","c","."," ","8"," ","o","f"," ","t","h","e"," ","A","c","t",".">>,
     <<"R","e","f","e","r"," ","t","o"," ","N","o","."," ","5"," ","e","t","c","."," ","a","n","d"," ","r","e","p","l","y",".">>,
     <<"N","o"," ","r","e","p","l","y",".">>,
     <<"D","e","n","i","e","d"," ","i","t",".">>,
     <<"I","t"," ","i","s"," ","l","a","t","e",".">>,
     <<"F","e","e"," ","i","s"," ","d","u","e"," ","o","n",".">>,
     <<"R","e","q","u","e","s","t"," ","d","e","n","i","e","d",".">>,
     <<"F","e","e"," ","i","s"," ","p","a","i","d"," ","n","o","w",".">>,
     <<" ","\n">>}

\* the documents given to the two segmenters: chunks joined by spaces
SegmentDocuments ==
    {Join(c, <<" ">>) : c \in BoundedSeq(SegmentChunks, MaxSegmentChunks)}

\* str(e) of the exceptions the Gemini call raises: four that
\* _is_quota_error recognises ("429 Too Many Requests", "Quota exceeded
\* for this project", "Rate Limit reached", "RESOURCE EXHAUSTED") and two
\* others ("Connection reset by peer", "Invalid API key")
ErrorMessages ==
    {<<"4","2","9"," ","T","o","o"," ","M","a","n","y"," ","R","e","q","u","e","s","t","s">>,
     <<"Q","u","o","t","a"," ","e","x","c","e","e","d","e","d"," ","f","o","r"," ","t","h","i","s"," ","p","r","o","j","e","c","t">>,
     <<"R","a","t","e"," ","L","i","m","i","t"," ","r","e","a","c","h","e","d">>,
     <<"R","E","S","O","U","R","C","E"," ","E","X","H","A","U","S","T","E","D">>,
     <<"C","o","n","n","e","c","t","i","o","n"," ","r","e","s","e","t"," ","b","y"," ","p","e","e","r">>,
     <<"I","n","v","a","l","i","d"," ","A","P","I"," ","k","e","y">>}

\* response.text of a call that returns: " The reply grants the data.\n"
ResponseTexts ==
    {<<" ","T","h","e"," ","r","e","p","l","y"," ","g","r","a","n","t","s"," ","t","h","e"," ","d","a","t","a",".","\n">>}

\* what the Gemini call does when it is reached
GeminiOutcomes ==
    {[raised |-> TRUE, message |-> m] : m \in ErrorMessages}
        \cup {[raised |-> FALSE, text |-> r] : r \in ResponseTexts}

\* the settings config.py can hold; GEMINI_API_KEY is set or empty
Configs ==
    [FALLBACK_MODE : {"auto", "local_only", "gemini_only"},
     ENABLE_LOCAL_FALLBACK : BOOLEAN,
     LOG_QUOTA_FAILURES : BOOLEAN,
     GEMINI_API_KEY : BOOLEAN]

\* the messages logged as quota failures
LoggedMessages ==
    {<<"4","2","9"," ","T","o","o"," ","M","a","n","y"," ","R","e","q","u","e","s","t","s">>,
     <<"Q","u","o","t","a"," ","e","x","c","e","e","d","e","d"," ","f","o","r"," ","t","h","i","s"," ","p","r","o","j","e","c","t">>}

\* the sizes of the log file a QuotaLogger is constructed on
InitialLogSizes == {MaxLogEntries - 2, MaxLogEntries - 1, MaxLogEntries}

\* a log file of n entries, written by n earlier calls
StoredLog(n) == [k \in 1..n |-> ApiSuccessEntry(k, "gemini", "technical")]

\* the documents of the concurrent invocations:
\* "Request is denied as exempt. Kindly acknowledge receipt.",
\* "Details are enclosed. Request is denied as exempt."
ConcurrentDocuments ==
    {<<"R","e","q","u","e","s","t"," ","i","s"," ","d","e","n","i","e","d"," ","a","s"," ","e","x","e","m","p","t","."," ","K","i","n","d","l","y"," ","a","c","k","n","o","w","l","e","d","g","e"," ","r","e","c","e","i","p","t",".">>,
     <<"D","e","t","a","i","l","s"," ","a","r","e"," ","e","n","c","l","o","s","e","d","."," ","R","e","q","u","e","s","t"," ","i","s"," ","d","e","n","i","e","d"," ","a","s"," ","e","x","e","m","p","t",".">>}

---------------------------------------------------------------------------
(* State machine *)

\* value of a result variable before its operation has returned
NotReturned == <<>>

\* config.py: FALLBACK_MODE, ENABLE_LOCAL_FALLBACK, LOG_QUOTA_FAILURES as
\* set in the file; GEMINI_API_KEY comes from the environment
DefaultConfig ==
    [FALLBACK_MODE |-> "auto", ENABLE_LOCAL_FALLBACK |-> TRUE,
     LOG_QUOTA_FAILURES |-> TRUE, GEMINI_API_KEY |-> FALSE]

\* the variables a run does not use keep these values
InitResults ==
    /\ suggestions = NotReturned
    /\ appeal_check = NotReturned
    /\ flags = NotReturned
    /\ report = NotReturned
    /\ classified = NotReturned
    /\ op = "none"
    /\ top_n = DefaultTopN
    /\ scored = NotReturned
    /\ fact_anchors = NotReturned
    /\ earlier = <<>>
    /\ segments = NotReturned
    /\ config = DefaultConfig
    /\ summary = NotReturned
    /\ logs = <<>>
    /\ now = 0
    /\ heap = <<>>
    /\ calls = <<>>

\* a caller constructs a StructuredRTIResponse
Init ==
    /\ text = <<>>
    /\ sentence = <<>>
    /\ \E refs \in EngineSectionRefs :
          structured = StructuredRTIResponse(<<>>, refs)
    /\ pc = "built"
    /\ InitResults

\* result.<bucket>.append(classified)
AppendTo(bucket, cs) ==
    structured' = [structured EXCEPT ![bucket] = Append(@, cs)]

\* a caller appends a sentence to a bucket before using the response
AppendSentence ==
    /\ pc = "built"
    /\ get_stats(structured).total_sentences < MaxTotal
    /\ \E bucket \in Buckets : \E t \in EngineTexts[bucket] :
          AppendTo(bucket, ClassifiedSentence(t, BucketCategory[bucket],
                                              ScoreUnit, <<>>, <<>>))
    /\ UNCHANGED <<text, sentence, classified, suggestions, appeal_check,
                   flags, report, pc, op,
                   top_n, scored, fact_anchors, earlier,
                   segments, config, summary, logs, now, heap, calls>>

\* the texts the rule-table runs may append to a bucket
RuleTexts(bucket) ==
    IF /\ bucket = "procedural_sentences"
       /\ Len(structured.procedural_sentences) < MaxVaried
    THEN EngineTexts[bucket]
    ELSE {ScenarioText[bucket]}

\* the rule-table runs append up to MaxRuleTotal sentences
AppendRuleSentence ==
    /\ pc = "built"
    /\ get_stats(structured).total_sentences < MaxRuleTotal
    /\ \E bucket \in Buckets : \E t \in RuleTexts(bucket) :
          AppendTo(bucket, ClassifiedSentence(t, BucketCategory[bucket],
                                              ScoreUnit, <<>>, <<>>))
    /\ UNCHANGED <<text, sentence, classified, suggestions, appeal_check,
                   flags, report, pc, op,
                   top_n, scored, fact_anchors, earlier,
                   segments, config, summary, logs, now, heap, calls>>

\* the counting scenario appends the bucket's one text
AppendScenarioSentence ==
    /\ pc = "built"
    /\ get_stats(structured).total_sentences < MaxScenarioTotal
    /\ \E bucket \in Buckets :
          AppendTo(bucket, ClassifiedSentence(ScenarioText[bucket],
                              BucketCategory[bucket], ScoreUnit, <<>>, <<>>))
    /\ UNCHANGED <<text, sentence, classified, suggestions, appeal_check,
                   flags, report, pc, op,
                   top_n, scored, fact_anchors, earlier,
                   segments, config, summary, logs, now, heap, calls>>

\* suggestions = suggest_next_steps(structured)
SuggestNextSteps ==
    /\ pc = "built"
    /\ suggestions' = suggest_next_steps(structured)
    /\ pc' = "done"
    /\ op' = "suggest_next_steps"
    /\ UNCHANGED <<text, structured, sentence, classified, appeal_check,
                   flags, report,
                   top_n, scored, fact_anchors, earlier,
                   segments, config, summary, logs, now, heap, calls>>

\* appeal_check = check_appeal_eligibility(structured)
CheckAppealEligibility ==
    /\ pc = "built"
    /\ appeal_check' = check_appeal_eligibility(structured)
    /\ pc' = "done"
    /\ op' = "check_appeal_eligibility"
    /\ UNCHANGED <<text, structured, sentence, classified, suggestions,
                   flags, report,
                   top_n, scored, fact_anchors, earlier,
                   segments, config, summary, logs, now, heap, calls>>

\* flags = flag_evasive_responses(structured)
FlagEvasiveResponses ==
    /\ pc = "built"
    /\ flags' = flag_evasive_responses(structured)
    /\ pc' = "done"
    /\ op' = "flag_evasive_responses"
    /\ UNCHANGED <<text, structured, sentence, classified, suggestions,
                   appeal_check, report,
                   top_n, scored, fact_anchors, earlier,
                   segments, config, summary, logs, now, heap, calls>>

\* report = generate_action_report(structured)
GenerateActionReport ==
    /\ pc = "built"
    /\ report' = generate_action_report(structured)
    /\ pc' = "done"
    /\ op' = "generate_action_report"
    /\ UNCHANGED <<text, structured, sentence, classified, suggestions,
                   appeal_check, flags,
                   top_n, scored, fact_anchors, earlier,
                   segments, config, summary, logs, now, heap, calls>>

Next ==
    \/ AppendSentence
    \/ SuggestNextSteps
    \/ CheckAppealEligibility
    \/ FlagEvasiveResponses
    \/ GenerateActionReport

\* the rule engine on every StructuredRTIResponse a caller can build
Spec == Init /\ [][Next]_vars

NextRules ==
    \/ AppendRuleSentence
    \/ SuggestNextSteps

\* the rule table on responses of up to MaxRuleTotal sentences
SpecRules == Init /\ [][NextRules]_vars

NextScenario ==
    \/ AppendScenarioSentence
    \/ GenerateActionReport

\* the rule engine on responses of up to MaxScenarioTotal sentences
SpecScenario == Init /\ [][NextScenario]_vars

\* a caller holds a sentence to classify
InitClassify ==
    /\ text = <<>>
    /\ sentence \in Sentences
    /\ structured = StructuredRTIResponse(<<>>, EmptyDict)
    /\ pc = "new"
    /\ InitResults

\* classified = classify_sentence(sentence)
ClassifySentence ==
    /\ pc = "new"
    /\ classified' = classify_sentence(sentence)
    /\ pc' = "done"
    /\ op' = "classify_sentence"
    /\ UNCHANGED <<text, structured, sentence, suggestions, appeal_check,
                   flags, report,
                   top_n, scored, fact_anchors, earlier,
                   segments, config, summary, logs, now, heap, calls>>

NextClassify == ClassifySentence

\* classify_sentence on every sentence of Sentences
SpecClassify == InitClassify /\ [][NextClassify]_vars

\* a caller holds a document
InitDocument ==
    /\ text \in Documents
    /\ sentence = <<>>
    /\ structured = StructuredRTIResponse(<<>>, EmptyDict)
    /\ pc = "new"
    /\ InitResults

\* structured = extract_structured_response(text)
ExtractStructuredResponse ==
    /\ pc = "new"
    /\ structured' = extract_structured_response(text)
    /\ pc' = "built"
    /\ op' = "extract_structured_response"
    /\ UNCHANGED <<text, sentence, classified, suggestions, appeal_check,
                   flags, report,
                   top_n, scored, fact_anchors, earlier,
                   segments, config, summary, logs, now, heap, calls>>

NextDocument ==
    \/ ExtractStructuredResponse
    \/ GenerateActionReport

\* the pipeline of app.py: extract_structured_response on a document,
\* then generate_action_report on its result
SpecDocument == InitDocument /\ [][NextDocument]_vars

\* a caller holds a sentence to score
InitScore ==
    /\ text = <<>>
    /\ sentence \in ScoreSentences
    /\ structured = StructuredRTIResponse(<<>>, EmptyDict)
    /\ pc = "new"
    /\ InitResults

\* scored = calculate_sentence_score(sentence)
CalculateSentenceScore ==
    /\ pc = "new"
    /\ scored' = calculate_sentence_score(sentence)
    /\ pc' = "done"
    /\ op' = "calculate_sentence_score"
    /\ UNCHANGED <<text, structured, sentence, classified, suggestions,
                   appeal_check, flags, report, top_n, fact_anchors,
                   earlier,
                   segments, config, summary, logs, now, heap, calls>>

NextScore == CalculateSentenceScore

\* calculate_sentence_score on every sentence of ScoreSentences
SpecScore == InitScore /\ [][NextScore]_vars

\* a caller holds a document and a count
InitAnchors ==
    /\ text \in AnchorDocuments
    /\ top_n \in 0..MaxTopN
    /\ sentence = <<>>
    /\ structured = StructuredRTIResponse(<<>>, EmptyDict)
    /\ pc = "new"
    /\ suggestions = NotReturned
    /\ appeal_check = NotReturned
    /\ flags = NotReturned
    /\ report = NotReturned
    /\ classified = NotReturned
    /\ scored = NotReturned
    /\ fact_anchors = NotReturned
    /\ earlier = <<>>
    /\ segments = NotReturned
    /\ config = DefaultConfig
    /\ summary = NotReturned
    /\ logs = <<>>
    /\ now = 0
    /\ heap = <<>>
    /\ calls = <<>>
    /\ op = "none"

\* fact_anchors = extract_fact_anchors(text, top_n)
ExtractFactAnchors ==
    /\ pc = "new"
    /\ fact_anchors' = extract_fact_anchors(text, top_n)
    /\ pc' = "done"
    /\ op' = "extract_fact_anchors"
    /\ UNCHANGED <<text, structured, sentence, classified, suggestions,
                   appeal_check, flags, report, top_n, scored, earlier,
                   segments, config, summary, logs, now, heap, calls>>

NextAnchors == ExtractFactAnchors

\* extract_fact_anchors on every document of AnchorDocuments with every
\* top_n up to MaxTopN
SpecAnchors == InitAnchors /\ [][NextAnchors]_vars

\* a caller holds a sentence, a document and a count, and has run nothing
InitRepeat ==
    /\ text \in RepeatDocuments
    /\ sentence \in RepeatSentences
    /\ top_n \in 0..MaxTopN
    /\ structured = StructuredRTIResponse(<<>>, EmptyDict)
    /\ pc = "new"
    /\ suggestions = NotReturned
    /\ appeal_check = NotReturned
    /\ flags = NotReturned
    /\ report = NotReturned
    /\ classified = NotReturned
    /\ scored = NotReturned
    /\ fact_anchors = NotReturned
    /\ earlier = <<>>
    /\ segments = NotReturned
    /\ config = DefaultConfig
    /\ summary = NotReturned
    /\ logs = <<>>
    /\ now = 0
    /\ heap = <<>>
    /\ calls = <<>>
    /\ op = "none"

\* classified = classify_sentence(sentence), in a run of the three calls
RunClassifySentence ==
    /\ pc = "new"
    /\ classified' = classify_sentence(sentence)
    /\ pc' = "classified"
    /\ op' = "classify_sentence"
    /\ UNCHANGED <<text, structured, sentence, suggestions, appeal_check,
                   flags, report, top_n, scored, fact_anchors, earlier,
                   segments, config, summary, logs, now, heap, calls>>

\* mutant: the result is built on the bucket lists of the response the
\* caller got before (lists shared between instances)
RunExtractStructuredResponse_SharedBuckets ==
    /\ pc = "classified"
    /\ structured' =
          ClassifyFrom([structured EXCEPT
                           !.original_text = text,
                           !.section_references = detect_rti_sections(text)],
                       split_into_sentences(text), 1)
    /\ pc' = "structured"
    /\ op' = "extract_structured_response"
    /\ UNCHANGED <<text, sentence, classified, suggestions, appeal_check,
                   flags, report, top_n, scored, fact_anchors, earlier,
                   segments, config, summary, logs, now, heap, calls>>

\* structured = extract_structured_response(text), in a run of the three
\* calls
RunExtractStructuredResponse ==
    /\ pc = "classified"
    /\ structured' = extract_structured_response(text)
    /\ pc' = "structured"
    /\ op' = "extract_structured_response"
    /\ UNCHANGED <<text, sentence, classified, suggestions, appeal_check,
                   flags, report, top_n, scored, fact_anchors, earlier,
                   segments, config, summary, logs, now, heap, calls>>

\* fact_anchors = extract_fact_anchors(text, top_n), in a run of the
\* three calls
RunExtractFactAnchors ==
    /\ pc = "structured"
    /\ fact_anchors' = extract_fact_anchors(text, top_n)
    /\ pc' = "ran"
    /\ op' = "extract_fact_anchors"
    /\ UNCHANGED <<text, structured, sentence, classified, suggestions,
                   appeal_check, flags, report, top_n, scored, earlier,
                   segments, config, summary, logs, now, heap, calls>>

\* the results of one run
RunResults ==
    [classified |-> classified, structured |-> structured,
     fact_anchors |-> fact_anchors]

\* the caller keeps the results of the run and starts another on the same
\* sentence, document and count
RunAgain ==
    /\ pc = "ran"
    /\ Len(earlier) + 1 < MaxRuns
    /\ earlier' = Append(earlier, RunResults)
    /\ pc' = "new"
    /\ op' = "none"
    /\ UNCHANGED <<text, structured, sentence, classified, suggestions,
                   appeal_check, flags, report, top_n, scored, fact_anchors,
                   segments, config, summary, logs, now, heap, calls>>

NextRepeat ==
    \/ RunClassifySentence
    \/ RunExtractStructuredResponse
    \/ RunExtractFactAnchors
    \/ RunAgain

\* the three calls run up to MaxRuns times on the same arguments
SpecRepeat == InitRepeat /\ [][NextRepeat]_vars

\* a caller holds a sentence that is also the whole document
InitSentenceDocument ==
    /\ sentence \in Sentences
    /\ text = sentence
    /\ structured = StructuredRTIResponse(<<>>, EmptyDict)
    /\ pc = "new"
    /\ InitResults

\* structured = extract_structured_response(text), after the sentence has
\* been classified on its own
ExtractFromSentence ==
    /\ pc = "done"
    /\ structured' = extract_structured_response(text)
    /\ pc' = "built"
    /\ op' = "extract_structured_response"
    /\ UNCHANGED <<text, sentence, classified, suggestions, appeal_check,
                   flags, report,
                   top_n, scored, fact_anchors, earlier,
                   segments, config, summary, logs, now, heap, calls>>

NextSentenceDocument ==
    \/ ClassifySentence
    \/ ExtractFromSentence

\* classify_sentence on a sentence, then extract_structured_response on
\* the document made of that sentence
SpecSentenceDocument == InitSentenceDocument /\ [][NextSentenceDocument]_vars

\* a caller holds a document to segment
InitSegment ==
    /\ text \in SegmentDocuments
    /\ sentence = <<>>
    /\ structured = StructuredRTIResponse(<<>>, EmptyDict)
    /\ pc = "new"
    /\ InitResults

\* segments = split_into_sentences(text), of rti_semantic
SplitForClassification ==
    /\ pc = "new"
    /\ segments' = split_into_sentences(text)
    /\ pc' = "done"
    /\ op' = "rti_semantic.split_into_sentences"
    /\ UNCHANGED <<text, structured, sentence, classified, suggestions,
                   appeal_check, flags, report, top_n, scored, fact_anchors,
                   earlier, config, summary, logs, now, heap, calls>>

\* segments = split_into_sentences(text), of fact_extractor
SplitForFacts ==
    /\ pc = "new"
    /\ segments' = fact_split_into_sentences(text)
    /\ pc' = "done"
    /\ op' = "fact_extractor.split_into_sentences"
    /\ UNCHANGED <<text, structured, sentence, classified, suggestions,
                   appeal_check, flags, report, top_n, scored, fact_anchors,
                   earlier, config, summary, logs, now, heap, calls>>

NextSegment ==
    \/ SplitForClassification
    \/ SplitForFacts

\* each segmenter on every document of SegmentDocuments
SpecSegment == InitSegment /\ [][NextSegment]_vars

\* a caller holds a document; config.py holds any of its settings
InitSummarizer ==
    /\ text = ScenarioFourSentence
    /\ sentence = <<>>
    /\ structured = StructuredRTIResponse(<<>>, EmptyDict)
    /\ pc = "new"
    /\ suggestions = NotReturned
    /\ appeal_check = NotReturned
    /\ flags = NotReturned
    /\ report = NotReturned
    /\ classified = NotReturned
    /\ op = "none"
    /\ top_n = DefaultTopN
    /\ scored = NotReturned
    /\ fact_anchors = NotReturned
    /\ earlier = <<>>
    /\ segments = NotReturned
    /\ config \in Configs
    /\ summary = NotReturned
    /\ logs = <<>>
    /\ now = 0
    /\ heap = <<>>
    /\ calls = <<>>

\* summary = generate_<summary_type>_summary(text, api_key), with the
\* Gemini call behaving as outcome
GenerateSummary(summary_type, function) ==
    /\ pc = "new"
    /\ \E api_key \in BOOLEAN : \E outcome \in GeminiOutcomes :
          LET r == generate_summary(summary_type, text, api_key, outcome,
                                    config, logs, now)
          IN  /\ summary' = r.result
              /\ logs' = r.logs
              /\ now' = r.now
              /\ calls' = <<[function |-> function, api_key |-> api_key,
                             outcome |-> outcome]>>
    /\ pc' = "done"
    /\ op' = function
    /\ UNCHANGED <<text, structured, sentence, classified, suggestions,
                   appeal_check, flags, report, top_n, scored, fact_anchors,
                   earlier, segments, config, heap>>

\* summary = generate_ultra_short_summary(text, api_key)
GenerateUltraShortSummary ==
    GenerateSummary("ultra_short", "generate_ultra_short_summary")

\* summary = generate_citizen_summary(text, api_key)
GenerateCitizenSummary ==
    GenerateSummary("citizen_friendly", "generate_citizen_summary")

\* summary = generate_technical_summary(text, api_key)
GenerateTechnicalSummary ==
    GenerateSummary("technical", "generate_technical_summary")

NextSummarizer ==
    \/ GenerateUltraShortSummary
    \/ GenerateCitizenSummary
    \/ GenerateTechnicalSummary

\* each generate_*_summary function under every setting, key and outcome
\* of the Gemini call
SpecSummarizer == InitSummarizer /\ [][NextSummarizer]_vars

\* a QuotaLogger is constructed on a log file
InitLogger ==
    /\ text = <<>>
    /\ sentence = <<>>
    /\ structured = StructuredRTIResponse(<<>>, EmptyDict)
    /\ pc = "built"
    /\ suggestions = NotReturned
    /\ appeal_check = NotReturned
    /\ flags = NotReturned
    /\ report = NotReturned
    /\ classified = NotReturned
    /\ op = "none"
    /\ top_n = DefaultTopN
    /\ scored = NotReturned
    /\ fact_anchors = NotReturned
    /\ earlier = <<>>
    /\ segments = NotReturned
    /\ config = DefaultConfig
    /\ summary = NotReturned
    /\ \E n \in InitialLogSizes :
          /\ logs = StoredLog(n)
          /\ now = n
    /\ heap = <<>>
    /\ calls = <<>>

\* the variables no logger call writes
LoggerUnchanged ==
    UNCHANGED <<text, structured, sentence, classified, suggestions,
                appeal_check, flags, report, pc, top_n, scored,
                fact_anchors, earlier, segments, config, summary, heap,
                calls>>

\* logger.log_quota_failure("429", message, context={...}, fallback_used=True)
LogQuotaFailure ==
    /\ pc = "built"
    /\ now < MaxLogEntries + MaxLogCalls
    /\ \E message \in LoggedMessages :
          logs' = log_quota_failure(logs,
                      QuotaFailureEntry(now + 1, ErrorType(message), message,
                          "gemini", [summary_type |-> "ultra_short"], TRUE))
    /\ now' = now + 1
    /\ op' = "log_quota_failure"
    /\ LoggerUnchanged

\* logger.log_fallback_activation(reason, "ultra_short")
LogFallbackActivation ==
    /\ pc = "built"
    /\ now < MaxLogEntries + MaxLogCalls
    /\ logs' = log_fallback_activation(logs,
                   FallbackActivationEntry(now + 1, KeyNotConfiguredReason,
                                           "ultra_short", TRUE))
    /\ now' = now + 1
    /\ op' = "log_fallback_activation"
    /\ LoggerUnchanged

\* logger.log_api_success("gemini", "ultra_short")
LogApiSuccess ==
    /\ pc = "built"
    /\ now < MaxLogEntries + MaxLogCalls
    /\ logs' = log_api_success(logs,
                   ApiSuccessEntry(now + 1, "gemini", "ultra_short"))
    /\ now' = now + 1
    /\ op' = "log_api_success"
    /\ LoggerUnchanged

NextLogger ==
    \/ LogQuotaFailure
    \/ LogFallbackActivation
    \/ LogApiSuccess

\* any sequence of calls on one QuotaLogger whose log file is nearly full
SpecLogger == InitLogger /\ [][NextLogger]_vars

\* mutant: the bucket fields default to five module-level lists (a mutable
\* default), created with the first instance and shared by all instances
NewResponse_SharedDefaults(h, doc) ==
    IF h = <<>>
    THEN [heap |-> <<detect_rti_sections(doc), <<>>, <<>>, <<>>, <<>>, <<>>>>,
          result |-> [original_text |-> doc,
                      informative_sentences |-> 2,
                      denial_sentences |-> 3,
                      procedural_sentences |-> 4,
                      evasive_sentences |-> 5,
                      neutral_sentences |-> 6,
                      section_references |-> 1]]
    ELSE [heap |-> h \o <<detect_rti_sections(doc)>>,
          result |-> [original_text |-> doc,
                      informative_sentences |-> 2,
                      denial_sentences |-> 3,
                      procedural_sentences |-> 4,
                      evasive_sentences |-> 5,
                      neutral_sentences |-> 6,
                      section_references |-> Len(h) + 1]]

\* the objects a StructuredRTIResponse(original_text=..., section_references=refs)
\* call adds to the heap: the dict built by detect_rti_sections, then one
\* new list per bucket field (default_factory=list), and the instance
\* holding their addresses
NewResponse(h, doc) ==
    [heap |-> h \o <<detect_rti_sections(doc), <<>>, <<>>, <<>>, <<>>, <<>>>>,
     result |-> [original_text |-> doc,
                 informative_sentences |-> Len(h) + 2,
                 denial_sentences |-> Len(h) + 3,
                 procedural_sentences |-> Len(h) + 4,
                 evasive_sentences |-> Len(h) + 5,
                 neutral_sentences |-> Len(h) + 6,
                 section_references |-> Len(h) + 1]]

\* the instance with the contents of the objects it refers to
Deref(h, r) ==
    [original_text |-> r.original_text,
     informative_sentences |-> h[r.informative_sentences],
     denial_sentences |-> h[r.denial_sentences],
     procedural_sentences |-> h[r.procedural_sentences],
     evasive_sentences |-> h[r.evasive_sentences],
     neutral_sentences |-> h[r.neutral_sentences],
     section_references |-> h[r.section_references]]

\* an invocation that has not started: its document and no local yet
NewCall(doc) ==
    [document |-> doc, pc |-> "new", sentences |-> <<>>, k |-> 1,
     result |-> NotReturned, fact_anchors |-> NotReturned,
     report |-> NotReturned]

\* MaxInvocations callers hold a document each
InitConcurrent ==
    /\ text = <<>>
    /\ sentence = <<>>
    /\ structured = StructuredRTIResponse(<<>>, EmptyDict)
    /\ pc = "new"
    /\ suggestions = NotReturned
    /\ appeal_check = NotReturned
    /\ flags = NotReturned
    /\ report = NotReturned
    /\ classified = NotReturned
    /\ op = "none"
    /\ top_n = DefaultTopN
    /\ scored = NotReturned
    /\ fact_anchors = NotReturned
    /\ earlier = <<>>
    /\ segments = NotReturned
    /\ config = DefaultConfig
    /\ summary = NotReturned
    /\ logs = <<>>
    /\ now = 0
    /\ heap = <<>>
    /\ \E documents \in [1..MaxInvocations -> ConcurrentDocuments] :
          calls = [i \in 1..MaxInvocations |-> NewCall(documents[i])]

\* the variables no invocation writes
ConcurrentUnchanged ==
    UNCHANGED <<text, structured, sentence, classified, suggestions,
                appeal_check, flags, report, pc, op, top_n, scored,
                fact_anchors, earlier, segments, config, summary, logs, now>>

\* extract_structured_response up to its loop: detect the sections, split
\* the sentences, construct the result
ConstructResponse(i) ==
    /\ calls[i].pc = "new"
    /\ LET made == NewResponse(heap, calls[i].document)
           split == split_into_sentences(calls[i].document)
       IN  /\ heap' = made.heap
           /\ calls' = [calls EXCEPT
                           ![i].result = made.result,
                           ![i].sentences = split,
                           ![i].pc = IF split = <<>> THEN "structured"
                                     ELSE "classifying"]
    /\ ConcurrentUnchanged

\* one turn of the loop: classify the sentence and append it to the list
\* of its bucket; after the last turn the function returns
ClassifyNext(i) ==
    /\ calls[i].pc = "classifying"
    /\ LET c == calls[i]
           cs == classify_sentence(c.sentences[c.k])
           list == c.result[BucketOf(cs.category)]
       IN  /\ heap' = [heap EXCEPT ![list] = Append(@, cs)]
           /\ calls' = [calls EXCEPT
                           ![i].k = c.k + 1,
                           ![i].pc = IF c.k = Len(c.sentences)
                                     THEN "structured" ELSE "classifying"]
    /\ ConcurrentUnchanged

\* fact_anchors = extract_fact_anchors(text)
AnchorsOf(i) ==
    /\ calls[i].pc = "structured"
    /\ calls' = [calls EXCEPT
                    ![i].fact_anchors =
                        extract_fact_anchors(calls[i].document, DefaultTopN),
                    ![i].pc = "anchored"]
    /\ UNCHANGED heap
    /\ ConcurrentUnchanged

\* action_report = generate_action_report(structured_response)
ReportOf(i) ==
    /\ calls[i].pc = "anchored"
    /\ calls' = [calls EXCEPT
                    ![i].report =
                        generate_action_report(Deref(heap, calls[i].result)),
                    ![i].pc = "done"]
    /\ UNCHANGED heap
    /\ ConcurrentUnchanged

NextConcurrent ==
    \E i \in 1..MaxInvocations :
        \/ ConstructResponse(i)
        \/ ClassifyNext(i)
        \/ AnchorsOf(i)
        \/ ReportOf(i)

\* the pipeline of app.py run by MaxInvocations callers at once, their
\* steps interleaved in any order
SpecConcurrent == InitConcurrent /\ [][NextConcurrent]_vars

---------------------------------------------------------------------------
(* Properties *)

\* the bucket sizes of the response in use
NumInformative == Len(structured.informative_sentences)
NumDenial == Len(structured.denial_sentences)
NumProcedural == Len(structured.procedural_sentences)
NumEvasive == Len(structured.evasive_sentences)
NumNeutral == Len(structured.neutral_sentences)
Total ==
    NumInformative + NumDenial + NumProcedural + NumEvasive + NumNeutral

\* some procedural sentence contains one of the words, letter case ignored
SomeProceduralHas(words) ==
    \E i \in 1..NumProcedural : \E w \in words :
        Contains(Lower(structured.procedural_sentences[i].text), w)

\* the conditions of the rule table, stated on the bucket sizes
CondFirstAppeal ==
    (Total > 0 /\ 10 * NumDenial > 3 * Total) \/ NumDenial >= 2
CondClarification ==
    NumEvasive >= 2 \/ (NumEvasive > 0 /\ NumInformative = 0)
CondChallenge == "section_8" \in DOMAIN structured.section_references
CondPayFee ==
    NumProcedural > 0 /\ SomeProceduralHas({<<"f","e","e">>, <<"d","e","p","o","s","i","t">>, <<"p","a","y","m","e","n","t">>})
CondTransferred ==
    NumProcedural > 0 /\ SomeProceduralHas({<<"t","r","a","n","s","f","e","r">>, <<"f","o","r","w","a","r","d">>})
CondComplete ==
    Total > 0 /\ 10 * NumInformative > 6 * Total /\ NumDenial = 0

\* the rows of the rule table, in the order of evaluation
RuleTable ==
    << [title |-> "File First Appeal", priority |-> "high",
        holds |-> CondFirstAppeal],
       [title |-> "Request Clarification", priority |-> "high",
        holds |-> CondClarification],
       [title |-> "Challenge Exemption Claim", priority |-> "high",
        holds |-> CondChallenge],
       [title |-> "Pay Additional Fee", priority |-> "medium",
        holds |-> CondPayFee],
       [title |-> "Application Transferred", priority |-> "low",
        holds |-> CondTransferred],
       [title |-> "Response Complete", priority |-> "low",
        holds |-> CondComplete] >>

ReviewTitle == "Review Response Carefully"

\* the positions of list whose suggestion has the title
Positions(list, ttl) == {i \in 1..Len(list) : list[i].title = ttl}

\* C2: suggest_next_steps returns a non-empty list; the default 'Review
\* Response Carefully' suggestion is in it iff no row of the rule table
\* holds, and then it is the only element.
C2_DefaultIffNoRuleFired ==
    op = "suggest_next_steps" =>
        LET rows == RuleTable
        IN  /\ Len(suggestions) >= 1
            /\ (Positions(suggestions, ReviewTitle) # {})
                  <=> (\A r \in 1..Len(rows) : ~rows[r].holds)
            /\ (Positions(suggestions, ReviewTitle) # {})
                  => (Len(suggestions) = 1)

\* C2 witness: a response that holds sentences and fires no rule
C2_Witness ==
    /\ op = "suggest_next_steps"
    /\ Total > 0
    /\ suggestions = <<ReviewSuggestion>>

\* C3: the non-default suggestions are exactly the rows of the rule table
\* whose condition holds, each once, with the row's priority, each row
\* decided by its own condition alone.
C3_SuggestionsAreFiredRows ==
    op = "suggest_next_steps" =>
        LET rows == RuleTable
        IN  /\ \A r \in 1..Len(rows) :
                  /\ Cardinality(Positions(suggestions, rows[r].title))
                        = (IF rows[r].holds THEN 1 ELSE 0)
                  /\ \A i \in Positions(suggestions, rows[r].title) :
                        suggestions[i].priority = rows[r].priority
            /\ \A i \in 1..Len(suggestions) :
                  \/ suggestions[i].title = ReviewTitle
                  \/ \E r \in 1..Len(rows) :
                        suggestions[i].title = rows[r].title

\* C3 witness: two denials that are no more than 0.3 of the sentences fire
\* the appeal row by the count alone, next to both procedural rows
C3_Witness ==
    /\ op = "suggest_next_steps"
    /\ NumDenial = 2
    /\ 10 * NumDenial <= 3 * Total
    /\ CondPayFee
    /\ CondTransferred
    /\ Len(suggestions) = 3

\* rank of a priority and of a title in the order of evaluation
PriorityRank(p) == CHOOSE k \in 0..2 : <<"high", "medium", "low">>[k + 1] = p
RuleTitles ==
    <<"File First Appeal", "Request Clarification",
      "Challenge Exemption Claim", "Pay Additional Fee",
      "Application Transferred", "Response Complete",
      "Review Response Carefully">>
TitleRank(ttl) == CHOOSE r \in 1..Len(RuleTitles) : RuleTitles[r] = ttl

\* C4: in the list returned by suggest_next_steps the priorities never
\* decrease in urgency order by position (high, then medium, then low) and
\* suggestions of equal priority stay in the order of their rules.
C4_PrioritySortedAndStable ==
    op = "suggest_next_steps" =>
        \A i, j \in 1..Len(suggestions) :
            i < j =>
                /\ PriorityRank(suggestions[i].priority)
                      <= PriorityRank(suggestions[j].priority)
                /\ (suggestions[i].priority = suggestions[j].priority)
                      => TitleRank(suggestions[i].title)
                            < TitleRank(suggestions[j].title)

\* C4 witness: two high suggestions, a medium and a low one
C4_Witness ==
    /\ op = "suggest_next_steps"
    /\ Len(suggestions) >= 4
    /\ suggestions[1].priority = "high"
    /\ suggestions[2].priority = "high"
    /\ \E i \in 1..Len(suggestions) : suggestions[i].priority = "medium"
    /\ suggestions[Len(suggestions)].priority = "low"

\* C5: the overall assessment is SATISFACTORY if informative_ratio > 0.6,
\* else UNSATISFACTORY if denial_ratio > 0.4, else INADEQUATE if
\* evasive_count > informative_count, else PARTIAL.
C5_AssessmentFirstMatch ==
    op = "generate_action_report" =>
        report.overall_assessment =
            (IF Total > 0 /\ 10 * NumInformative > 6 * Total
                THEN Satisfactory
             ELSE IF Total > 0 /\ 10 * NumDenial > 4 * Total
                THEN Unsatisfactory
             ELSE IF NumEvasive > NumInformative THEN Inadequate
             ELSE Partial)

\* C5 witness: more than 0.4 denied and more evasive than informative
\* sentences: the second test decides before the third
C5_Witness ==
    /\ op = "generate_action_report"
    /\ 10 * NumDenial > 4 * Total
    /\ NumEvasive > NumInformative
    /\ report.overall_assessment = Unsatisfactory

\* the response of scenario 3: 10 sentences, 4 denial, 0 informative
ScenarioThree ==
    /\ op = "generate_action_report"
    /\ Total = 10
    /\ NumDenial = 4
    /\ NumInformative = 0

\* C6 as stated: with 10 sentences, 4 of them denial and none informative,
\* the overall assessment is the UNSATISFACTORY label.
C6_Original ==
    ScenarioThree => report.overall_assessment = Unsatisfactory

\* C6 amended: with 10 sentences, 4 of them denial and none informative,
\* denial_ratio is 0.4, which is not > 0.4: the overall assessment is
\* INADEQUATE if the Evasive bucket is non-empty and PARTIAL otherwise.
C6_ScenarioThreeAssessment ==
    ScenarioThree =>
        report.overall_assessment =
            (IF NumEvasive > 0 THEN Inadequate ELSE Partial)

\* C6 witness: scenario 3 with the other 6 sentences in three buckets
C6_Witness ==
    /\ ScenarioThree
    /\ NumProcedural = 2
    /\ NumEvasive = 2
    /\ NumNeutral = 2
    /\ report.overall_assessment = Inadequate

\* the conditions of appeal eligibility and their reasons, in order
AppealTable ==
    << [reason |-> "Information was denied", holds |-> NumDenial > 0],
       [reason |-> "Section 8 exemptions were cited",
        holds |-> "section_8" \in DOMAIN structured.section_references],
       [reason |-> "Response contains evasive/unclear statements",
        holds |-> NumEvasive > 0],
       [reason |-> "Response does not adequately address the query",
        holds |-> NumInformative = 0 /\ NumNeutral > 3] >>

\* the positions of a reason in the reasons list
ReasonPositions(list, r) == {i \in 1..Len(list) : list[i] = r}

\* C8: eligible is true iff one of the four conditions holds; the reasons
\* list holds one reason per condition that holds, in the order of the
\* conditions; eligible is false exactly when the list is empty.
C8_AppealEligibility ==
    op = "check_appeal_eligibility" =>
        LET rows == AppealTable
            reasons == appeal_check.reasons
        IN  /\ appeal_check.eligible
                  <=> (\E k \in 1..Len(rows) : rows[k].holds)
            /\ \A k \in 1..Len(rows) :
                  Cardinality(ReasonPositions(reasons, rows[k].reason))
                     = (IF rows[k].holds THEN 1 ELSE 0)
            /\ Len(reasons)
                  = Cardinality({k \in 1..Len(rows) : rows[k].holds})
            /\ \A i, j \in 1..Len(reasons) :
                  i < j =>
                     \E k, l \in 1..Len(rows) :
                        /\ k < l
                        /\ reasons[i] = rows[k].reason
                        /\ reasons[j] = rows[l].reason
            /\ (~appeal_check.eligible) <=> (reasons = <<>>)

\* C8 witness: only the fourth condition holds
C8_Witness ==
    /\ op = "check_appeal_eligibility"
    /\ NumInformative = 0
    /\ NumNeutral = 4
    /\ appeal_check.eligible
    /\ appeal_check.reasons =
          <<"Response does not adequately address the query">>

\* the positions of the denial sentences without 'section', case ignored
Unjustified ==
    {i \in 1..NumDenial :
        ~Contains(Lower(structured.denial_sentences[i].text), <<"s","e","c","t","i","o","n">>)}

\* the k-th smallest element of a set of numbers
Kth(S, k) == CHOOSE x \in S : Cardinality({y \in S : y < x}) = k - 1

\* C9: flag_evasive_responses returns one evasive/medium flag per Evasive
\* sentence, in order, then one denial_without_reason/high flag per Denial
\* sentence without 'section' (case-insensitive), in order, and nothing else.
C9_Flags ==
    op = "flag_evasive_responses" =>
        /\ Len(flags) = NumEvasive + Cardinality(Unjustified)
        /\ \A i \in 1..NumEvasive :
              /\ flags[i].type = "evasive"
              /\ flags[i].severity = "medium"
              /\ flags[i].text = structured.evasive_sentences[i].text
        /\ \A k \in 1..Cardinality(Unjustified) :
              /\ flags[NumEvasive + k].type = "denial_without_reason"
              /\ flags[NumEvasive + k].severity = "high"
              /\ flags[NumEvasive + k].text =
                    structured.denial_sentences[Kth(Unjustified, k)].text

\* C9 witness: an evasive sentence, a denial citing a SECTION and, after
\* it, a denial citing none
C9_Witness ==
    /\ op = "flag_evasive_responses"
    /\ NumEvasive = 1
    /\ NumDenial = 2
    /\ Unjustified = {2}
    /\ Len(flags) = 2
    /\ NumProcedural + NumInformative + NumNeutral > 0

\* the categories in the order the score table declares them
DeclaredOrder == <<"denial", "informative", "procedural", "evasive">>

\* the adjusted score of each category for the sentence being classified
SentenceScores ==
    LET scores == AdjustedScores(Strip(sentence))
    IN  [c \in {DeclaredOrder[k] : k \in 1..Len(DeclaredOrder)} |->
            scores[CHOOSE k \in 1..Len(scores) : scores[k].category = c].score]

\* the highest of the scores
Highest(score) ==
    CHOOSE x \in {score[c] : c \in DOMAIN score} :
        \A c \in DOMAIN score : x >= score[c]

\* C10: when the highest adjusted score reaches the 0.1 floor,
\* classify_sentence returns the category that has it, and of several
\* categories with exactly that score the one declared first (Denial,
\* Informative, Procedural, Evasive).
C10_HighestScoreFirstDeclaredWins ==
    (op = "classify_sentence" /\ Strip(sentence) # <<>>) =>
        LET score == SentenceScores
            top == Highest(score)
        IN  top >= NeutralFloor =>
               \A k \in 1..Len(DeclaredOrder) :
                  (classified.category = DeclaredOrder[k])
                     <=> /\ score[DeclaredOrder[k]] = top
                         /\ \A j \in 1..(k - 1) : score[DeclaredOrder[j]] < top

\* C10 witness: Denial and Informative have the same highest score 0.5
\* and Denial, declared first, is returned
C10_Witness ==
    /\ op = "classify_sentence"
    /\ classified.category = "denial"
    /\ LET score == SentenceScores
       IN  /\ score["denial"] = Highest(score)
           /\ score["informative"] = Highest(score)
           /\ Highest(score) >= NeutralFloor

\* the texts of the entries of a bucket
BucketTexts(bucket) ==
    [k \in 1..Len(structured[bucket]) |-> structured[bucket][k].text]

\* the elements of list at the positions of the set idx, in list order
Pick(list, idx) == [k \in 1..Cardinality(idx) |-> list[Kth(idx, k)]]

MentionsSection8 == FindIter(text, RTI_SECTIONS["section_8"], 1) # <<>>

\* the titles of the suggestions of the report
ReportTitles ==
    [k \in 1..Len(report.suggestions) |-> report.suggestions[k].title]

\* the buckets are empty and the stats all zero
EmptyResponse ==
    /\ \A b \in Buckets : structured[b] = <<>>
    /\ get_stats(structured).total_sentences = 0
    /\ get_stats(structured).informative_count = 0
    /\ get_stats(structured).denial_count = 0
    /\ get_stats(structured).procedural_count = 0
    /\ get_stats(structured).evasive_count = 0
    /\ get_stats(structured).neutral_count = 0
    /\ get_stats(structured).informative_ratio.num = 0
    /\ get_stats(structured).denial_ratio.num = 0

\* C7 as stated: for a document with zero segmented sentences the buckets
\* are empty, the stats zero, and the report holds exactly the default
\* 'Review Response Carefully' suggestion.
C7_Original ==
    (pc # "new" /\ split_into_sentences(text) = <<>>) =>
        /\ EmptyResponse
        /\ (op = "generate_action_report") => (ReportTitles = <<ReviewTitle>>)

\* C7 amended: for a document with zero segmented sentences the buckets are
\* empty and the stats zero; the report holds exactly one suggestion: the
\* default 'Review Response Carefully' if the text has no match of the
\* section_8 pattern, 'Challenge Exemption Claim' if it has one.
C7_ZeroSentences ==
    (pc # "new" /\ split_into_sentences(text) = <<>>) =>
        /\ EmptyResponse
        /\ (op = "generate_action_report") =>
              (ReportTitles =
                  (IF MentionsSection8 THEN <<"Challenge Exemption Claim">>
                   ELSE <<ReviewTitle>>))

\* C7 witness: a non-empty document of spans too short to keep, one of
\* them an exemption word
C7_Witness ==
    /\ op = "generate_action_report"
    /\ Len(text) > MinSentenceLength
    /\ split_into_sentences(text) = <<>>
    /\ MentionsSection8
    /\ ReportTitles = <<"Challenge Exemption Claim">>

\* the stripped sentence being classified
Stripped == Strip(sentence)

\* the category whose score won the loop: the first one, in declared
\* order, that holds the highest score
Winner(score) ==
    DeclaredOrder[Least({k \in 1..Len(DeclaredOrder) :
                            score[DeclaredOrder[k]] = Highest(score)})]

\* C11: for a non-blank sentence, classify_sentence returns Neutral with
\* confidence exactly 0.5 if and only if the highest adjusted score is
\* below 0.1; the computed score is then not the confidence, and with a
\* highest score of 0.1 or more the category is not Neutral and the
\* confidence is the computed score capped at 1.0.
C11_NeutralIffBelowFloor ==
    (op = "classify_sentence" /\ Stripped # <<>>) =>
        LET score == SentenceScores
            top == Highest(score)
        IN  /\ (classified.category = "neutral"
                   /\ classified.confidence = NeutralConfidence)
                  <=> (top < NeutralFloor)
            /\ (top < NeutralFloor) => (classified.confidence # top)
            /\ (top >= NeutralFloor) =>
                  /\ classified.category # "neutral"
                  /\ classified.confidence = Min(top, ScoreUnit)

\* C11 witness: one denial keyword alone scores 1/14, below the floor,
\* and the sentence comes back Neutral with confidence 0.5
C11_Witness ==
    /\ op = "classify_sentence"
    /\ Stripped # <<>>
    /\ LET score == SentenceScores
       IN  /\ Highest(score) > 0
           /\ Highest(score) < NeutralFloor
    /\ classified.category = "neutral"
    /\ classified.confidence = NeutralConfidence

\* the number of keywords of a list found in the sentence as
\* case-insensitive substrings
NumFound(keywords) ==
    Cardinality({k \in 1..Len(keywords) :
                    Contains(Lower(Stripped), Lower(keywords[k]))})

\* number found / size of the list, in units of 1/ScoreUnit
RawScore(keywords) == (NumFound(keywords) * ScoreUnit) \div Len(keywords)

\* a section pattern has a match in the sentence
Detected(name) == FindIter(Stripped, RTI_SECTIONS[name], 1) # <<>>

\* the sentence contains 'transfer' or 'forward', in any case
HasTransferWord ==
    \/ Contains(Lower(Stripped), <<"t","r","a","n","s","f","e","r">>)
    \/ Contains(Lower(Stripped), <<"f","o","r","w","a","r","d">>)

\* C12: each adjusted score is found/size of its keyword list, plus 0.3
\* for Denial exactly when section_8 is detected, plus 0.2 once for
\* Procedural exactly when section_7 is detected or a transfer word
\* occurs; three denial keywords with a Section 8 mention and no other
\* category keyword give Denial with section_8 referenced, and
\* 'transferred to' as the only keyword gives Procedural.
C12_ScoresAndBoosts ==
    (op = "classify_sentence" /\ Stripped # <<>>) =>
        LET score == SentenceScores
            d == NumFound(DENIAL_KEYWORDS)
            i == NumFound(INFORMATIVE_KEYWORDS)
            p == NumFound(PROCEDURAL_KEYWORDS)
            e == NumFound(EVASIVE_KEYWORDS)
        IN  /\ score["denial"] =
                  RawScore(DENIAL_KEYWORDS)
                     + (IF Detected("section_8") THEN DenialBoost ELSE 0)
            /\ score["informative"] = RawScore(INFORMATIVE_KEYWORDS)
            /\ score["procedural"] =
                  RawScore(PROCEDURAL_KEYWORDS)
                     + (IF Detected("section_7") \/ HasTransferWord
                        THEN ProceduralBoost ELSE 0)
            /\ score["evasive"] = RawScore(EVASIVE_KEYWORDS)
            /\ (d = 3 /\ Detected("section_8") /\ i + p + e = 0) =>
                  /\ classified.category = "denial"
                  /\ \E k \in 1..Len(classified.section_references) :
                        classified.section_references[k] = "section_8"
            /\ (d + i + e = 0 /\ p = 1
                   /\ Contains(Lower(Stripped), Lower(PROCEDURAL_KEYWORDS[1]))) =>
                  classified.category = "procedural"

\* C12 witness: a sentence with a procedural keyword, a Section 7 mention
\* and a transfer word has been classified with one boost of 0.2
C12_Witness ==
    /\ op = "classify_sentence"
    /\ Stripped # <<>>
    /\ Detected("section_7")
    /\ HasTransferWord
    /\ NumFound(PROCEDURAL_KEYWORDS) = 1
    /\ SentenceScores["procedural"]
          = RawScore(PROCEDURAL_KEYWORDS) + ProceduralBoost
    /\ classified.category = "procedural"

\* the section ids detected in the sentence
DetectedSections == {name \in DOMAIN RTI_SECTIONS : Detected(name)}

\* C13: classify_sentence returns a result for every string: Neutral
\* with confidence 0.0 and empty lists for a blank one, otherwise one of
\* the five categories with a confidence in [0, 1], equal to the winning
\* adjusted score capped at 1.0 when the category is not Neutral, and with
\* the detected section ids as section_references whatever the category.
C13_TotalAndBounded ==
    (op = "classify_sentence") =>
        IF Stripped = <<>>
        THEN classified = [text |-> <<>>, category |-> "neutral",
                           confidence |-> 0,
                           section_references |-> <<>>,
                           keywords_found |-> <<>>]
        ELSE LET score == SentenceScores
             IN  /\ DOMAIN classified =
                       {"text", "category", "confidence",
                        "section_references", "keywords_found"}
                 /\ classified.text = Stripped
                 /\ classified.category \in SentenceCategory
                 /\ classified.confidence >= 0
                 /\ classified.confidence <= ScoreUnit
                 /\ (classified.category # "neutral") =>
                       /\ classified.category = Winner(score)
                       /\ classified.confidence
                             = Min(score[classified.category], ScoreUnit)
                 /\ {classified.section_references[k] :
                        k \in 1..Len(classified.section_references)}
                       = DetectedSections
                 /\ Len(classified.section_references)
                       = Cardinality(DetectedSections)

\* C13 witness: a winning score above 1.0 has been returned as
\* confidence 1.0, with the detected sections listed
C13_Witness ==
    /\ op = "classify_sentence"
    /\ Stripped # <<>>
    /\ Highest(SentenceScores) > ScoreUnit
    /\ classified.category = "denial"
    /\ classified.confidence = ScoreUnit
    /\ DetectedSections # {}

\* a fraction num/den has the value count/total
IsRatio(r, count, total) == r.den > 0 /\ r.num * total = count * r.den

\* C14: in every state of a StructuredRTIResponse, get_stats returns
\* each count equal to the present length of its bucket, total_sentences
\* equal to the sum of the five counts, the two ratios equal to
\* count / total when total > 0, and both ratios 0 when total = 0.
C14_StatsMatchBuckets ==
    LET stats == get_stats(structured)
    IN  /\ stats.informative_count = Len(structured.informative_sentences)
        /\ stats.denial_count = Len(structured.denial_sentences)
        /\ stats.procedural_count = Len(structured.procedural_sentences)
        /\ stats.evasive_count = Len(structured.evasive_sentences)
        /\ stats.neutral_count = Len(structured.neutral_sentences)
        /\ stats.total_sentences =
              stats.informative_count + stats.denial_count
                 + stats.procedural_count + stats.evasive_count
                 + stats.neutral_count
        /\ IF stats.total_sentences > 0
           THEN /\ IsRatio(stats.informative_ratio, stats.informative_count,
                           stats.total_sentences)
                /\ IsRatio(stats.denial_ratio, stats.denial_count,
                           stats.total_sentences)
           ELSE /\ stats.informative_ratio.num = 0
                /\ stats.denial_ratio.num = 0
                /\ stats.informative_ratio.den > 0
                /\ stats.denial_ratio.den > 0

\* C14 witness: a response with sentences in all five buckets, the
\* informative and denial ones a proper part of it, has been read by
\* generate_action_report
C14_Witness ==
    /\ op = "generate_action_report"
    /\ NumInformative = 2
    /\ NumDenial = 1
    /\ NumProcedural >= 1
    /\ NumEvasive >= 1
    /\ NumNeutral >= 1
    /\ get_stats(structured).total_sentences = Total
    /\ get_stats(structured).informative_ratio.num * Total = 2
          * get_stats(structured).informative_ratio.den

\* the sentences the fact-anchor segmenter yields for the document
FactSentences == fact_split_into_sentences(text)

\* the fact-density score of a sentence
FactScore(s) == calculate_sentence_score(s).score

\* C15 as stated: the list returned by extract_fact_anchors has at most
\* top_n elements.
C15_Original ==
    (op = "extract_fact_anchors") => (Len(fact_anchors) <= top_n)

\* C16 as stated: no sentence string occurs twice in the list returned by
\* extract_fact_anchors.
C16_Original ==
    (op = "extract_fact_anchors") =>
        \A i, j \in 1..Len(fact_anchors) :
            (i # j) => (fact_anchors[i] # fact_anchors[j])

\* a is the start of b
IsPrefix(a, b) == Len(a) <= Len(b) /\ a = SubSeq(b, 1, Len(a))

\* the sentences of a list of scored entries that have a given score
WithScore(list, v) ==
    LET Has(item) == item.score = v
    IN  SentencesOf(SelectSeq(list, Has))

\* the returned anchors, each with its fact-density score
ScoredAnchors == ScoredSentences(fact_anchors)

\* the segmented sentences of the document, each with its score
ScoredDocument == ScoredSentences(FactSentences)

\* C17: the scores of the sentences returned by extract_fact_anchors do
\* not increase from one position to the next, and the returned sentences
\* of one score are the first sentences of that score in the document, in
\* document order.
C17_ScoresNonIncreasing ==
    (op = "extract_fact_anchors") =>
        LET anchors == ScoredAnchors
            document == ScoredDocument
        IN  /\ \A k \in 1..(Len(anchors) - 1) :
                  anchors[k].score >= anchors[k + 1].score
            /\ \A k \in 1..Len(anchors) :
                  IsPrefix(WithScore(anchors, anchors[k].score),
                           WithScore(document, anchors[k].score))

\* C17 witness: the fallback has returned two different sentences of one
\* score, below the threshold, in the order the document has them, and
\* has left out a third one
C17_Witness ==
    /\ op = "extract_fact_anchors"
    /\ Len(fact_anchors) = 2
    /\ fact_anchors[1] # fact_anchors[2]
    /\ FactScore(fact_anchors[1]) = FactScore(fact_anchors[2])
    /\ FactScore(fact_anchors[1]) < MinScore
    /\ Len(FactSentences) = 3
    /\ FactSentences[1] = fact_anchors[1]
    /\ FactSentences[2] = fact_anchors[2]

\* the segmented sentences of the document, sorted by score descending
SortedSentences == SentencesOf(SortByScore(ScoredSentences(FactSentences)))

\* the reference selection: of the sorted sentences keep those with
\* score >= 1.0 and take the first top_n; if no sentence has score >= 1.0
\* take the first 2 of the sorted list
ReferenceSelection ==
    LET Meets(s) == FactScore(s) >= MinScore
        kept == SelectSeq(SortedSentences, Meets)
    IN  IF kept = <<>> THEN Slice(SortedSentences, FallbackCount)
        ELSE Slice(kept, top_n)

\* C18 as stated: extract_fact_anchors returns the reference selection,
\* and its result is empty if and only if the segmenter yields no
\* sentence.
C18_Original ==
    (op = "extract_fact_anchors") =>
        /\ fact_anchors = ReferenceSelection
        /\ (fact_anchors = <<>>) <=> (FactSentences = <<>>)

\* the number of keywords of a list found in the sentence being scored
NumMatched(keywords) ==
    Cardinality({k \in 1..Len(keywords) :
                    Contains(Lower(sentence), keywords[k])})

\* the number of matches of the patterns of a list in the sentence
NumMatches(patterns) == Len(AllMatches(sentence, patterns, 1))

\* the number of words of the sentence being scored
Words == WordCount(sentence)

\* twice the score the claim gives for the counts of each kind and the
\* number of words, in units of 1/FactUnit
TwiceExpected(actions, denials, amounts, dates, authorities, words) ==
    LET sum == 4 * FactUnit * actions
               + 5 * FactUnit * denials
               + 6 * FactUnit * amounts
               + 5 * FactUnit * dates
               + 2 * FactUnit * authorities
               + (IF words >= 15 /\ words <= 50 THEN 2 * FactUnit
                  ELSE IF words > 50 THEN FactUnit
                  ELSE 0)
    IN  IF words < 5 THEN sum \div 2 ELSE sum

\* C19: calculate_sentence_score returns 2.0 x actions + 2.5 x denials
\* + 3.0 x amount matches + 2.5 x date matches + 1.0 x authorities, plus
\* 1.0 for 15 to 50 words or 0.5 for more than 50, the total halved
\* exactly when the sentence has fewer than 5 words; a sentence of 5 to 14
\* words with one amount match, one date match, one action verb and no
\* other match scores 7.5; the score is never negative.
C19_ScoreFormula ==
    (op = "calculate_sentence_score") =>
        LET actions == NumMatched(FACT_ACTIONS)
            denials == NumMatched(FACT_DENIALS)
            amounts == NumMatches(FACT_AMOUNTS)
            dates == NumMatches(FACT_DATES)
            authorities == NumMatched(FACT_AUTHORITIES)
            words == Words
        IN  /\ 2 * scored.score
                  = TwiceExpected(actions, denials, amounts, dates,
                                  authorities, words)
            /\ scored.score >= 0
            /\ (/\ amounts = 1
                /\ dates = 1
                /\ actions = 1
                /\ denials = 0
                /\ authorities = 0
                /\ words >= 5
                /\ words <= 14) => (2 * scored.score = 15 * FactUnit)

\* C19 witness: the sentence of Scenario 4, eight words with one amount,
\* one date and one action verb, has been scored 7.5
C19_Witness ==
    /\ op = "calculate_sentence_score"
    /\ sentence = ScenarioFourSentence
    /\ Words = 8
    /\ NumMatches(FACT_AMOUNTS) = 1
    /\ NumMatches(FACT_DATES) = 1
    /\ NumMatched(FACT_ACTIONS) = 1
    /\ 2 * scored.score = 15 * FactUnit

AllClassified ==
    structured.informative_sentences \o structured.denial_sentences
        \o structured.procedural_sentences \o structured.evasive_sentences
        \o structured.neutral_sentences

\* a classified sentence lists a section id
Refers(cs, name) ==
    \E k \in 1..Len(cs.section_references) : cs.section_references[k] = name

\* C30: a non-blank sentence in which section_8 is detected has a Denial
\* score of at least 0.3 and is not Neutral; one in which section_7 is
\* detected or that contains 'transfer' or 'forward' has a Procedural
\* score of at least 0.2 and is not Neutral; a non-Neutral result has
\* confidence at least 0.1 and a Neutral one confidence exactly 0.5; in
\* a StructuredRTIResponse no sentence of the Neutral bucket lists
\* section_8 or section_7, every one has confidence 0.5, and every
\* sentence of the other buckets has confidence at least 0.1.
C30_BoostedNeverNeutral ==
    /\ (op # "none" /\ Stripped # <<>>) =>
          LET score == SentenceScores
          IN  /\ Detected("section_8") =>
                    /\ score["denial"] >= DenialBoost
                    /\ classified.category # "neutral"
              /\ (Detected("section_7") \/ HasTransferWord) =>
                    /\ score["procedural"] >= ProceduralBoost
                    /\ classified.category # "neutral"
              /\ (classified.category # "neutral") =>
                    classified.confidence >= NeutralFloor
              /\ (classified.category = "neutral") =>
                    classified.confidence = NeutralConfidence
    /\ (op = "extract_structured_response") =>
          /\ \A k \in 1..Len(structured.neutral_sentences) :
                LET cs == structured.neutral_sentences[k]
                IN  /\ cs.category = "neutral"
                    /\ ~Refers(cs, "section_8")
                    /\ ~Refers(cs, "section_7")
                    /\ cs.confidence = NeutralConfidence
          /\ \A k \in 1..Len(AllClassified) :
                LET cs == AllClassified[k]
                IN  (cs.category # "neutral") =>
                        cs.confidence >= NeutralFloor

\* C30 witness: a sentence whose only signal is a 'Sec. 8' mention (no
\* keyword of any list) has been classified Denial on the boost alone, and
\* the response built from it holds it in the Denial bucket
C30_Witness ==
    /\ op = "extract_structured_response"
    /\ Detected("section_8")
    /\ NumFound(DENIAL_KEYWORDS) = 0
    /\ SentenceScores["denial"] = DenialBoost
    /\ classified.category = "denial"
    /\ Len(structured.denial_sentences) = 1
    /\ Refers(structured.denial_sentences[1], "section_8")
    /\ structured.neutral_sentences = <<>>

\* the section ids of RTI_SECTIONS
FixedSectionIds ==
    {"section_8", "section_9", "section_11", "section_19", "section_7"}

\* the positions of the document where a match of a section pattern starts
Occurrences(name) ==
    {j \in 1..Len(text) : MatchAt(text, j, RTI_SECTIONS[name], 1) # 0}

\* the context of the occurrence starting at position j: 50 characters on
\* each side of the matched characters, trimmed
ContextOf(name, j) ==
    LET stop == MatchAt(text, j, RTI_SECTIONS[name], 1)
    IN  Strip(SubSeq(text, Max(1, j - ContextChars),
                           Min(Len(text), stop - 1 + ContextChars)))

\* C22: the map returned by detect_rti_sections has keys only from the
\* five section ids; a key is present if and only if its pattern matches
\* somewhere in the text, and then its list is not empty and holds one
\* excerpt per occurrence, in order of occurrence.
C22_SparseMapOneExcerptPerMatch ==
    (op = "extract_structured_response") =>
        LET refs == structured.section_references
        IN  /\ DOMAIN refs \subseteq FixedSectionIds
            /\ \A name \in FixedSectionIds :
                  LET occ == Occurrences(name)
                  IN  /\ (name \in DOMAIN refs) <=> (occ # {})
                      /\ (name \in DOMAIN refs) =>
                            /\ refs[name] # <<>>
                            /\ Len(refs[name]) = Cardinality(occ)
                            /\ \A k \in 1..Len(refs[name]) :
                                  refs[name][k] = ContextOf(name, Kth(occ, k))

\* C22 witness: a text repeating 'exempt' has two excerpts under section_8
\* and no other key
C22_Witness ==
    /\ op = "extract_structured_response"
    /\ Cardinality(Occurrences("section_8")) = 2
    /\ DOMAIN structured.section_references = {"section_8"}
    /\ Len(structured.section_references["section_8"]) = 2

\* the segmenter that returned last is the classification segmenter
ClassificationSegmenter == op = "rti_semantic.split_into_sentences"

\* the segmenter that returned last is the fact-anchor segmenter
FactSegmenter == op = "fact_extractor.split_into_sentences"

\* the spans the segmenter split the document into, before its length
\* filter
SplitSpans ==
    LET pieces == IF ClassificationSegmenter
                  THEN SplitFrom(Protect(text), 1)
                  ELSE SplitFrom(ProtectDotted(text), 1)
    IN  [k \in 1..Len(pieces) |-> RestoreFrom(pieces[k], 1)]

\* the minimum length the specification gives the segmenter
SpecifiedMinimum ==
    IF ClassificationSegmenter THEN MinSentenceLength
    ELSE MinFactSentenceLength

\* the spans of trimmed length at least n, trimmed, in document order
SpansOfAtLeast(n) ==
    LET Kept(s) == Len(Strip(s)) >= n
        kept == SelectSeq(SplitSpans, Kept)
    IN  [k \in 1..Len(kept) |-> Strip(kept[k])]

\* C23 as stated: the classification segmenter drops exactly the spans of
\* trimmed length below 10 and the fact-anchor segmenter those below 15;
\* every span of trimmed length 10 (15) or more is kept, trimmed, in
\* document order.
C23_Original ==
    (ClassificationSegmenter \/ FactSegmenter) =>
        (segments = SpansOfAtLeast(SpecifiedMinimum))

\* the protected abbreviations: Mr, Mrs, Dr, Prof, Sr, Jr, vs, etc, i.e,
\* e.g, Sec, No (with either initial) and Rs
ProtectedAbbreviations ==
    TitleAbbreviations \o SectionAbbreviations \o RupeeAbbreviations

\* position i of the document holds the period that ends a protected
\* abbreviation and is followed by whitespace
ProtectedPeriodAt(i) ==
    /\ i >= 1
    /\ i < Len(text)
    /\ text[i] = "."
    /\ IsSpace(text[i + 1])
    /\ \E a \in 1..Len(ProtectedAbbreviations) :
          LET n == Len(ProtectedAbbreviations[a])
          IN  /\ i - n >= 1
              /\ StartsWithAt(text, i - n, ProtectedAbbreviations[a])

\* whitespace after '.', '!' or '?' at position i, the period of a
\* protected abbreviation excepted
SentenceBoundaryAt(i) == BoundaryAt(text, i) /\ ~ProtectedPeriodAt(i - 1)

\* the document cut at its sentence boundaries, from position i on
RECURSIVE SentencesFrom(_)
SentencesFrom(i) ==
    LET boundaries == {j \in i..Len(text) : SentenceBoundaryAt(j)}
    IN  IF boundaries = {} THEN <<SubSeq(text, i, Len(text))>>
        ELSE LET b == Least(boundaries)
             IN  <<SubSeq(text, i, b - 1)>>
                    \o SentencesFrom(SpaceRunEnd(text, b) + 1)

\* the sentences a segmenter that protects every listed abbreviation
\* returns: those longer than the segmenter's own length filter, trimmed
ProtectedSentences ==
    LET Kept(s) == IF ClassificationSegmenter THEN LongEnough(s)
                   ELSE LongEnoughForFact(s)
        kept == SelectSeq(SentencesFrom(1), Kept)
    IN  [k \in 1..Len(kept) |-> Strip(kept[k])]

\* C24 as stated: in both segmenters the period of a protected
\* abbreviation followed by whitespace is never a sentence boundary, so
\* the returned sentences are those of the document cut at its other
\* boundaries ('Rs. 45,678 was credited.' stays one sentence), and no
\* returned sentence holds the placeholder.
C24_Original ==
    (ClassificationSegmenter \/ FactSegmenter) =>
        /\ segments = ProtectedSentences
        /\ \A k \in 1..Len(segments) : ~Contains(segments[k], DotPlaceholder)

\* the titles of the three high-priority suggestions
HighPriorityTitles ==
    {"File First Appeal", "Request Clarification",
     "Challenge Exemption Claim"}

\* the report holds a suggestion with one of the titles
Suggests(ttl) ==
    \E k \in 1..Len(report.suggestions) : report.suggestions[k].title = ttl

\* C28: in every report, the high-priority suggestions are the three
\* named ones; if the list holds one of them, appeal_eligibility.eligible
\* is true and its reasons list is not empty; when eligible is false every
\* suggestion has priority medium or low.
C28_HighPriorityImpliesEligible ==
    (op = "generate_action_report") =>
        LET list == report.suggestions
            appeal == report.appeal_eligibility
        IN  /\ \A k \in 1..Len(list) :
                  (list[k].priority = "high")
                     <=> (list[k].title \in HighPriorityTitles)
            /\ (\E k \in 1..Len(list) : list[k].priority = "high") =>
                  /\ appeal.eligible = TRUE
                  /\ appeal.reasons # <<>>
            /\ (appeal.eligible = FALSE) =>
                  \A k \in 1..Len(list) :
                      list[k].priority \in {"medium", "low"}

\* C28 witness: a response with no denial and no evasive sentence whose
\* section_references hold section_8: the only high-priority suggestion
\* is Challenge Exemption Claim and the only reason the cited exemption
C28_Witness ==
    /\ op = "generate_action_report"
    /\ NumDenial = 0
    /\ NumEvasive = 0
    /\ Suggests("Challenge Exemption Claim")
    /\ report.appeal_eligibility.eligible = TRUE
    /\ report.appeal_eligibility.reasons
          = <<"Section 8 exemptions were cited">>

\* the report holds at least one flag of type 'evasive'
HasEvasiveFlag ==
    \E k \in 1..Len(report.flags) : report.flags[k].type = "evasive"

\* C29: whenever the overall assessment is UNSATISFACTORY the File First
\* Appeal suggestion is in the list; whenever it is INADEQUATE the Request
\* Clarification suggestion is in the list and an evasive flag is
\* reported; whenever Response Complete is in the list the assessment is
\* SATISFACTORY and the File First Appeal rule (denial_ratio > 0.3 or
\* denial_count >= 2) has not fired.
C29_AssessmentMatchesSuggestions ==
    (op = "generate_action_report") =>
        /\ (report.overall_assessment = Unsatisfactory) =>
              Suggests("File First Appeal")
        /\ (report.overall_assessment = Inadequate) =>
              /\ Suggests("Request Clarification")
              /\ HasEvasiveFlag
        /\ Suggests("Response Complete") =>
              /\ report.overall_assessment = Satisfactory
              /\ ~CondFirstAppeal
              /\ ~Suggests("File First Appeal")

\* C29 witness: one evasive sentence and no informative one among several
\* sentences: the assessment is INADEQUATE, with Request Clarification
\* suggested on the second arm of its rule and one evasive flag
C29_Witness ==
    /\ op = "generate_action_report"
    /\ NumEvasive = 1
    /\ NumInformative = 0
    /\ Total >= 3
    /\ report.overall_assessment = Inadequate
    /\ Suggests("Request Clarification")
    /\ HasEvasiveFlag

\* C27 as stated: after any sequence of log_quota_failure,
\* log_fallback_activation and log_api_success calls the stored log holds
\* at most 1000 entries, and they are the most recently logged entries in
\* logging order (entry k of the log is the k-th of the last Len(logs)
\* entries logged).
C27_Original ==
    /\ Len(logs) <= MaxLogEntries
    /\ \A k \in 1..Len(logs) : logs[k].timestamp = now - Len(logs) + k

\* a generate_*_summary function has returned
SummaryReturned ==
    op \in {"generate_ultra_short_summary", "generate_citizen_summary",
            "generate_technical_summary"}

\* the call logged an activation of the local fallback
FallbackLogged ==
    \E k \in 1..Len(logs) : logs[k].event_type = "fallback_activation"

\* C25 as stated: with FALLBACK_MODE "gemini_only" no generate_*_summary
\* function invokes the local fallback summarizer or returns a result
\* with source "local_fallback", whether the key is missing or the Gemini
\* call raises, and whatever ENABLE_LOCAL_FALLBACK is.
C25_Original ==
    (SummaryReturned /\ config.FALLBACK_MODE = "gemini_only") =>
        /\ summary.source # "local_fallback"
        /\ ~FallbackLogged

\* the Gemini call of the invocation failed: no key was configured, or
\* the call raised
GeminiFailed ==
    \/ ~setup_gemini(calls[1].api_key, config)
    \/ calls[1].outcome.raised

\* C26 as stated: with FALLBACK_MODE "auto" and ENABLE_LOCAL_FALLBACK true,
\* every Gemini failure (no key configured, or any exception, quota or
\* not) returns the local fallback summary with source "local_fallback";
\* source "error" is never returned, and source "gemini" is returned only
\* when the call succeeded.
C26_Original ==
    (SummaryReturned /\ config.FALLBACK_MODE = "auto"
        /\ config.ENABLE_LOCAL_FALLBACK) =>
        /\ GeminiFailed =>
              /\ summary.source = "local_fallback"
              /\ summary.text = FallbackText(summary.summary_type, text)
        /\ summary.source # "error"
        /\ (summary.source = "gemini") => ~GeminiFailed

\* the objects an instance refers to
ObjectsOf(r) ==
    {r.informative_sentences, r.denial_sentences, r.procedural_sentences,
     r.evasive_sentences, r.neutral_sentences, r.section_references}

\* the invocation has constructed its StructuredRTIResponse
Constructed(i) == calls[i].pc # "new"

\* extract_structured_response has returned in the invocation
Structured(i) == calls[i].pc \in {"structured", "anchored", "done"}

\* what the three functions return on each document when nothing else
\* runs
SequentialRuns ==
    {[document |-> d,
      structured |-> extract_structured_response(d),
      fact_anchors |-> extract_fact_anchors(d, DefaultTopN),
      report |-> generate_action_report(extract_structured_response(d))] :
        d \in ConcurrentDocuments}

SequentialRun(d) == CHOOSE run \in SequentialRuns : run.document = d

\* C21: in every interleaving, each invocation gets the result it gets
\* when run alone: its StructuredRTIResponse, once returned, equals
\* extract_structured_response of its document and stays so while
\* generate_action_report and the other invocations run; its fact anchors
\* and its action report are those of its document; and the six objects
\* of an instance (five bucket lists, one section_references map) are
\* distinct and shared with no other instance.
C21_InvocationsIndependent ==
    \A i \in 1..Len(calls) :
        LET c == calls[i]
            alone == SequentialRun(c.document)
        IN  /\ Constructed(i) =>
                  /\ Cardinality(ObjectsOf(c.result)) = 6
                  /\ \A j \in 1..Len(calls) :
                        (j # i /\ Constructed(j)) =>
                            ObjectsOf(c.result) \cap ObjectsOf(calls[j].result)
                                = {}
            /\ Structured(i) => (Deref(heap, c.result) = alone.structured)
            /\ (c.pc \in {"anchored", "done"}) =>
                  (c.fact_anchors = alone.fact_anchors)
            /\ (c.pc = "done") => (c.report = alone.report)

\* C21 witness: the first invocation ran its three functions to the end
\* on one document while the second, which constructed its response
\* earlier (its objects come first in the heap), is still inside the loop
\* of extract_structured_response on another document
C21_Witness ==
    /\ Len(calls) >= 2
    /\ calls[1].pc = "done"
    /\ calls[2].pc = "classifying"
    /\ calls[2].k = 2
    /\ calls[2].result.section_references
          < calls[1].result.section_references
    /\ calls[1].document # calls[2].document
    /\ Len(calls[1].sentences) = 2
    /\ calls[1].report # NotReturned

====
